---- MODULE Spec2Model ----
(***************************************************************************)
(* Task orchestration engine of the AI Employee system: the approval       *)
(* workflow (scripts/approval_workflow.py), the risk classifier            *)
(* (scripts/risk_classifier.py), the retrying step executor                *)
(* (scripts/step_executor.py) and the orchestrator loop                    *)
(* (scripts/orchestrator.py) over the directory-per-state store.           *)
(*                                                                         *)
(* Conventions.  A text (an action description, an event content) is       *)
(* represented by the set of the code's keywords that occur in it as       *)
(* substrings, which is all the classifier and the router read of it.      *)
(* The clock `now` counts poll intervals of the approval wait.             *)
(***************************************************************************)
EXTENDS Integers, Sequences, FiniteSets, TLC

VARIABLES
    now,            \* wall clock, in poll intervals
    pendingDir,     \* ids of the files in Pending_Approval/
    approvedDir,    \* ids of the files in Approved/
    rejectedDir,    \* ids of the files in Rejected/
    pendingMeta,    \* id -> content/mtime of the request file written for it
    checkLog,       \* (id, status) of every standalone check_approval_status call
    max_retries,    \* StepExecutor.max_retries (MAX_RETRY_ATTEMPTS)
    planDoc,        \* Plan.md: step id -> status, or no file
    esPc,           \* position inside StepExecutor.execute_step
    esIn,           \* arguments of the running execute_step call
    esSeen,         \* statuses _wait_for_approval has observed
    approvalId,     \* approval id of the running step, or NoId
    waitStart,      \* start_time of _wait_for_approval
    attempt,        \* loop variable of the retry loop
    outcomes,       \* outcome of every step_function() invocation of the call
    delays,         \* arguments of the retry time.sleep calls of the call
    esResult,       \* (success, error) returned by execute_step
    escalations,    \* escalation task files created
    lastCall,       \* the latest step_function() invocation: step, function, outcome
    epPc,           \* position inside StepExecutor.execute_plan
    steps,          \* the `steps` argument of execute_plan
    stepIdx,        \* index of the step the for loop is at
    completed,      \* execute_plan's counter of completed steps
    failed,         \* execute_plan's counter of failed steps
    failed_steps,   \* execute_plan's list of failed steps
    summary,        \* (all_success, outcome) returned by execute_plan
    stepLog,        \* start and return of every execute_step call of the plan
    eventFiles,     \* event id -> content of the event file the queue was given
    needsAction,    \* ids of the files in Needs_Action/
    doneDir,        \* ids of the files in Done/
    orchPc,         \* position inside Orchestrator._process_event_queue
    processed,      \* _process_event_queue's counter
    cur,            \* id of the event being handled, 0 when none
    cycle,          \* run_cycle calls completed
    lastHandled,    \* what the latest finished loop iteration did with its event
    actionRuns,     \* event id -> times its action or plan completed successfully
    wfaPc,          \* position inside ApprovalWorkflow.wait_for_approval
    wfaArgs,        \* arguments of the running wait_for_approval call
    wfaStart,       \* start_time of wait_for_approval
    wfaSeen,        \* statuses wait_for_approval has observed
    wfaResult,      \* status returned by wait_for_approval
    qCorrupt,       \* ids of the files in Needs_Action/ that do not parse
    qLocked,        \* ids of the files another process holds locked
    qPendingApproval, \* ids of the event files moved to Pending_Approval/
    popLog,         \* the calls made on the event queue, in order
    seen_hashes,    \* WatcherBase.seen_hashes
    seenAdded,      \* the hashes in the order _mark_as_seen added them
    pollLog,        \* raw-event hash and fate of every event poll_once was given
    lastMarked,     \* the latest _mark_as_seen call: its argument, and the trim
    cyPc,           \* position inside run_continuous / run_cycle
    cyConfig,       \* state of watcher_config.json
    cyLog,          \* actions the orchestrator has logged
    awPc,           \* position inside atomic_write, or crashed
    awTarget,       \* content of the target path, absent included
    awTemp,         \* content of the .tmp path, absent included
    awContent,      \* the `content` argument of the running atomic_write
    callArgs,       \* operation and arguments of the latest call of a function
    callResult,     \* what that call returned or raised
    logFile,        \* the entries of today's log file, in file order
    lgPc,           \* where each process is in Logger.log
    lgData,         \* each process's log_data["entries"]
    lgCalls,        \* the Logger.log calls each process has completed
    planContent     \* the text of Plan.md: step lines, other text, tally

approvalVars == <<pendingDir, approvedDir, rejectedDir, pendingMeta>>
stepVars == <<max_retries, planDoc, esPc, esIn, esSeen, approvalId, waitStart,
              attempt, outcomes, delays, esResult, escalations>>
planVars == <<epPc, steps, stepIdx, completed, failed, failed_steps, summary, stepLog>>
orchVars == <<eventFiles, needsAction, doneDir, orchPc, processed, cur, cycle,
              lastHandled, actionRuns>>
waitVars == <<wfaPc, wfaArgs, wfaStart, wfaSeen, wfaResult>>
queueVars == <<qCorrupt, qLocked, qPendingApproval, popLog>>
watcherVars == <<seen_hashes, seenAdded, pollLog, lastMarked>>
cycleVars == <<cyPc, cyConfig, cyLog>>
fileVars == <<awPc, awTarget, awTemp, awContent>>
callVars == <<callArgs, callResult>>
logVars == <<logFile, lgPc, lgData, lgCalls>>
auxVars == <<fileVars, callVars, logVars, planContent>>
vars == <<now, approvalVars, checkLog, stepVars, lastCall, planVars, orchVars,
          waitVars, queueVars, watcherVars, cycleVars, auxVars>>

(***************************************************************************)
(* Bounds of the model.                                                    *)
(***************************************************************************)
MaxTime == 4          \* the environment's Tick stops here; no work starts later
MaxChecks == 2        \* standalone status checks per run
MaxRetriesCfg == 3    \* MAX_RETRY_ATTEMPTS ranges over 0..MaxRetriesCfg
MaxRequests == 1      \* approval requests created in a run
MaxEvents == 2        \* event files in Needs_Action/ at the start
MaxWaitSeconds == 2   \* the largest max_wait_seconds given to wait_for_approval
MaxPolls == 9         \* status checks of one wait_for_approval call
timeout_hours == 2    \* ApprovalWorkflow.timeout_hours, scaled to clock units
poll_interval == 1    \* _wait_for_approval poll_interval, the clock unit
max_wait == 3         \* _wait_for_approval max_wait, scaled to clock units

(***************************************************************************)
(* Program constants.                                                      *)
(***************************************************************************)
base_retry_delay == 5     \* StepExecutor.base_retry_delay, seconds
DefaultMaxRetries == 3    \* MAX_RETRY_ATTEMPTS default
PAYMENT_THRESHOLD_HIGH == 500
PAYMENT_THRESHOLD_MEDIUM == 50

NoId == <<"none", 0>>
None == "None"

(***************************************************************************)
(* Risk classifier.                                                        *)
(***************************************************************************)
HIGH_RISK_KEYWORDS ==
    {"payment", "transfer", "invoice", "legal", "contract", "medical",
     "health", "condolence", "lawsuit", "terminate", "delete", "remove",
     "destroy", "cancel", "refund"}

MEDIUM_RISK_KEYWORDS ==
    {"email", "send", "post", "publish", "share", "reply", "new contact",
     "unknown", "first time", "external", "public", "broadcast", "announce"}

SENSITIVE_CONTEXTS ==
    {"emotional", "conflict", "negotiation", "complaint", "dispute",
     "disagreement", "criticism", "feedback"}

NoSocialPostTypes == {}

SocialPostTypes == {"linkedin_post", "twitter_post", "facebook_post"}

\* metadata.get(key, default) of the keys the classifier reads
NoMetadata == [amount |-> 0, new_payee |-> FALSE, contact_history |-> "unknown"]

classify_without_payment_rules(action_type, content, metadata) ==
    IF content \cap HIGH_RISK_KEYWORDS # {} THEN "high"
    ELSE IF content \cap MEDIUM_RISK_KEYWORDS # {} THEN "medium"
    ELSE IF content \cap SENSITIVE_CONTEXTS # {} THEN "medium"
    ELSE IF action_type \in SocialPostTypes THEN "medium"
    ELSE IF action_type = "email_send" /\ metadata.contact_history = "new"
        THEN "medium"
    ELSE IF action_type = "file_delete" THEN "high"
    ELSE "low"

classify(action_type, content, metadata) ==
    IF content \cap HIGH_RISK_KEYWORDS # {} THEN "high"
    ELSE IF action_type = "payment" /\ metadata.amount > PAYMENT_THRESHOLD_HIGH
        THEN "high"
    ELSE IF action_type = "payment" /\ metadata.new_payee THEN "high"
    ELSE IF action_type = "payment" /\ metadata.amount > PAYMENT_THRESHOLD_MEDIUM
        THEN "medium"
    ELSE IF content \cap MEDIUM_RISK_KEYWORDS # {} THEN "medium"
    ELSE IF content \cap SENSITIVE_CONTEXTS # {} THEN "medium"
    ELSE IF action_type \in SocialPostTypes THEN "medium"
    ELSE IF action_type = "email_send" /\ metadata.contact_history = "new"
        THEN "medium"
    ELSE IF action_type = "file_delete" THEN "high"
    ELSE "low"

(***************************************************************************)
(* Approval workflow.                                                      *)
(***************************************************************************)
\* The request file: its embedded expires_at, whether the embedded JSON is
\* still readable, and the file's modification time.
RequestFile(created) ==
    [expires_at |-> created + timeout_hours, metaOk |-> TRUE, mtime |-> created]

request_approval(action_id) ==
    /\ pendingDir' = pendingDir \cup {action_id}
    /\ pendingMeta' = [i \in DOMAIN pendingMeta \cup {action_id} |->
                         IF i = action_id THEN RequestFile(now) ELSE pendingMeta[i]]
    /\ UNCHANGED <<approvedDir, rejectedDir>>

_never_expired(action_id) == FALSE

_is_expired_by_mtime(action_id) ==
    now - pendingMeta[action_id].mtime > timeout_hours

\* lines 217-248
_is_expired(action_id) ==
    IF pendingMeta[action_id].metaOk
    THEN now > pendingMeta[action_id].expires_at
    ELSE now - pendingMeta[action_id].mtime > timeout_hours

check_approval_status_no_move(action_id) ==
    IF action_id \in approvedDir
    THEN [status |-> "approved", pending |-> pendingDir, rejected |-> rejectedDir]
    ELSE IF action_id \in rejectedDir
    THEN [status |-> "rejected", pending |-> pendingDir, rejected |-> rejectedDir]
    ELSE IF action_id \in pendingDir
    THEN IF _is_expired(action_id)
         THEN [status |-> "timeout", pending |-> pendingDir, rejected |-> rejectedDir]
         ELSE [status |-> "pending", pending |-> pendingDir, rejected |-> rejectedDir]
    ELSE [status |-> "not_found", pending |-> pendingDir, rejected |-> rejectedDir]

\* check_approval_status: the status returned and the directories it leaves
check_approval_status(action_id) ==
    IF action_id \in approvedDir
    THEN [status |-> "approved", pending |-> pendingDir, rejected |-> rejectedDir]
    ELSE IF action_id \in rejectedDir
    THEN [status |-> "rejected", pending |-> pendingDir, rejected |-> rejectedDir]
    ELSE IF action_id \in pendingDir
    THEN IF _is_expired(action_id)
         THEN [status |-> "timeout", pending |-> pendingDir \ {action_id},
               rejected |-> rejectedDir \cup {action_id}]
         ELSE [status |-> "pending", pending |-> pendingDir, rejected |-> rejectedDir]
    ELSE [status |-> "not_found", pending |-> pendingDir, rejected |-> rejectedDir]


ReturnedStatusesNoNotFound == {"approved", "rejected", "timeout"}

\* line 272: the statuses that end wait_for_approval
ReturnedStatuses == {"approved", "rejected", "timeout", "not_found"}

\* line 276, `if max_wait_seconds and ...`: None and 0 are both false
ceiling_set(args) == args.has_max /\ args.max_wait_seconds # 0

\* line 280: time.sleep(poll_interval), in clock units
wait_sleep == poll_interval

\* wait_for_approval is called for a request that was made
wait_for_approval_call ==
    /\ wfaPc = "idle"
    /\ \E id \in DOMAIN pendingMeta :
       \E c \in {[has_max |-> FALSE, max_wait_seconds |-> 0],
                  [has_max |-> TRUE, max_wait_seconds |-> 0],
                  [has_max |-> TRUE, max_wait_seconds |-> MaxWaitSeconds]} :
          wfaArgs' = [action_id |-> id, has_max |-> c.has_max,
                      max_wait_seconds |-> c.max_wait_seconds]
    /\ wfaStart' = now
    /\ wfaPc' = "poll"
    /\ wfaSeen' = << >>
    /\ UNCHANGED <<now, approvalVars, checkLog, stepVars, lastCall, planVars,
                   orchVars, wfaResult,
                   queueVars, watcherVars, cycleVars,
                   auxVars>>

\* lines 269-280, one iteration of the loop of wait_for_approval
wait_for_approval ==
    /\ wfaPc = "poll"
    /\ Len(wfaSeen) < MaxPolls
    /\ LET r == check_approval_status(wfaArgs.action_id)
       IN /\ pendingDir' = r.pending
          /\ rejectedDir' = r.rejected
          /\ wfaSeen' = Append(wfaSeen, r.status)
          /\ IF r.status \in ReturnedStatuses
             THEN /\ wfaPc' = "returned"
                  /\ wfaResult' = r.status
                  /\ UNCHANGED now
             ELSE IF ceiling_set(wfaArgs) /\ now - wfaStart > wfaArgs.max_wait_seconds
             THEN /\ wfaPc' = "returned"
                  /\ wfaResult' = "pending"
                  /\ UNCHANGED now
             ELSE /\ now' = now + wait_sleep
                  /\ UNCHANGED <<wfaPc, wfaResult>>
    /\ UNCHANGED <<approvedDir, pendingMeta, checkLog, stepVars, lastCall,
                   planVars, orchVars, wfaArgs, wfaStart,
                   queueVars, watcherVars, cycleVars,
                   auxVars>>

(***************************************************************************)
(* Plan document (Plan.md), as far as the executor reads and writes it.    *)
(***************************************************************************)
StepStatuses == {"pending", "in_progress", "completed", "failed"}

create_plan(n) ==
    [exists |-> TRUE, status |-> "Active", steps |-> [i \in 1..n |-> "pending"]]

NoPlanFile == [exists |-> FALSE, status |-> None, steps |-> << >>]

\* replaces '**Status**: Active' when the document still holds it
mark_plan_complete(doc, outcome) ==
    IF ~doc.exists THEN doc
    ELSE IF doc.status # "Active" THEN doc
    ELSE [doc EXCEPT !.status = outcome]

update_step_status(doc, step_id, new_status) ==
    IF ~doc.exists THEN doc
    ELSE IF step_id \notin DOMAIN doc.steps THEN doc
    ELSE [doc EXCEPT !.steps[step_id] = new_status]

(***************************************************************************)
(* Step executor: execute_step.                                            *)
(***************************************************************************)
Errors == {"boom", "late"}
StepOutcomes == {"ok"} \cup Errors

RECURSIVE Pow3(_)
Pow3(n) == IF n <= 0 THEN 1 ELSE 3 * Pow3(n - 1)

retry_delay_off_by_one(k) == base_retry_delay * Pow3(k)

\* line 156
retry_delay(k) == base_retry_delay * Pow3(k - 1)

requires_approval_high_only(risk_level) == risk_level = "high"

\* line 242, RiskClassifier.requires_approval
requires_approval(risk_level) == risk_level \in {"medium", "high"}

\* no execute_step call is running
IdleInput ==
    [step_id |-> 1, function |-> 1, blocking |-> TRUE,
     requires_risk_check |-> FALSE, action_type |-> None,
     content |-> {}, metadata |-> NoMetadata]

NoCall == [step |-> 0, function |-> 0, outcome |-> None]

\* create_escalation_task: the artifact written to Needs_Action/
create_escalation_task(step_id, error, event_id) ==
    Append(escalations, [event_id |-> event_id, step |-> step_id, error |-> error])

Returned(success, error) == [success |-> success, error |-> error]
NotReturned == Returned(FALSE, "not returned")

\* the retry loop `for attempt in range(1, max_retries + 1)` is entered, or
\* falls through to `return False, "Unknown error"` when the range is empty
EnterRetryLoop ==
    IF 1 <= max_retries
    THEN /\ esPc' = "attempt"
         /\ attempt' = 1
         /\ esResult' = esResult
    ELSE /\ esPc' = "done"
         /\ attempt' = attempt
         /\ esResult' = Returned(FALSE, "Unknown error")

\* lines 74-102 and _check_risk_and_approval
execute_step_start ==
    /\ esPc = "start"
    /\ LET doc == update_step_status(planDoc, esIn.step_id, "in_progress")
           risk == classify(esIn.action_type, esIn.content, esIn.metadata)
           action_id == <<esIn.action_type, now>>
       IN IF esIn.requires_risk_check /\ esIn.action_type # None
             /\ requires_approval(risk)
          THEN /\ request_approval(action_id)
               /\ approvalId' = action_id
               /\ planDoc' = update_step_status(doc, esIn.step_id, "in_progress")
               /\ waitStart' = now
               /\ esPc' = "wait"
               /\ UNCHANGED <<attempt, esResult>>
          ELSE /\ planDoc' = doc
               /\ EnterRetryLoop
               /\ UNCHANGED <<approvalVars, approvalId, waitStart>>
    /\ UNCHANGED <<now, checkLog, max_retries, esIn, esSeen, outcomes, delays,
                   escalations, lastCall, planVars,
                   orchVars, waitVars,
                   queueVars, watcherVars, cycleVars,
                   auxVars>>

approval_blocked ==
    /\ planDoc' = update_step_status(planDoc, esIn.step_id, "failed")
    /\ esPc' = "done"
    /\ esResult' = Returned(FALSE, "Approval rejected or timeout")
    /\ UNCHANGED attempt

\* _wait_for_approval, one iteration of its loop (or its exit), then lines
\* 103-120 of execute_step
_wait_for_approval ==
    /\ esPc = "wait"
    /\ IF now - waitStart < max_wait
       THEN LET r == check_approval_status(approvalId)
            IN /\ pendingDir' = r.pending
               /\ rejectedDir' = r.rejected
               /\ esSeen' = Append(esSeen, r.status)
               /\ IF r.status = "approved"
                  THEN /\ EnterRetryLoop
                       /\ UNCHANGED <<planDoc, now>>
                  ELSE IF r.status \in {"rejected", "timeout"}
                  THEN /\ approval_blocked
                       /\ UNCHANGED now
                  ELSE /\ now' = now + poll_interval
                       /\ UNCHANGED <<planDoc, esPc, esResult, attempt>>
       ELSE /\ approval_blocked
            /\ UNCHANGED <<now, pendingDir, rejectedDir, esSeen>>
    /\ UNCHANGED <<approvedDir, pendingMeta, checkLog, max_retries, esIn,
                   approvalId, waitStart, outcomes, delays, escalations, lastCall,
                   planVars,
                   orchVars, waitVars,
                   queueVars, watcherVars, cycleVars,
                   auxVars>>

AfterSuccessKeepLooping == "attempt"

\* line 148: `return True, None` leaves the retry loop
AfterSuccess == "done"

\* lines 123-199, one iteration of the retry loop
attempt_step ==
    /\ esPc = "attempt"
    /\ \E o \in StepOutcomes :
        /\ outcomes' = Append(outcomes, o)
        /\ lastCall' = [step |-> esIn.step_id, function |-> esIn.function,
                        outcome |-> o]
        /\ IF o = "ok"
           THEN /\ planDoc' = update_step_status(planDoc, esIn.step_id, "completed")
                /\ esPc' = AfterSuccess
                /\ esResult' = Returned(TRUE, None)
                /\ UNCHANGED <<attempt, delays>>
           ELSE IF attempt < max_retries
           THEN /\ delays' = Append(delays, retry_delay(attempt))
                /\ planDoc' = update_step_status(planDoc, esIn.step_id, "in_progress")
                /\ attempt' = attempt + 1
                /\ UNCHANGED <<esPc, esResult>>
           ELSE /\ planDoc' = update_step_status(planDoc, esIn.step_id, "failed")
                /\ esPc' = "done"
                /\ esResult' = Returned(FALSE, o)
                /\ UNCHANGED <<attempt, delays>>
    /\ UNCHANGED <<now, approvalVars, checkLog, max_retries, esIn, esSeen,
                   approvalId, waitStart, escalations, planVars,
                   orchVars, waitVars,
                   queueVars, watcherVars, cycleVars,
                   auxVars>>

(***************************************************************************)
(* Step executor: execute_plan.                                            *)
(***************************************************************************)
NoSummary == [returned |-> FALSE, all_success |-> FALSE, outcome |-> None,
              total_steps |-> 0, completed |-> 0, failed |-> 0]

plan_outcome_failed_first(c, f) ==
    IF c = 0 THEN "failed" ELSE IF f = 0 THEN "success" ELSE "partial"

\* line 401
plan_outcome(c, f) ==
    IF f = 0 THEN "success" ELSE IF c > 0 THEN "partial" ELSE "failed"

stops_plan_never(step) == FALSE

\* line 383: step.get('blocking', True)
stops_plan(step) == step.blocking

\* lines 355-370: the for loop takes the next step and calls execute_step
execute_plan_call_step ==
    /\ epPc = "loop"
    /\ stepIdx <= Len(steps)
    /\ esIn' = steps[stepIdx]
    /\ esPc' = "start"
    /\ esSeen' = << >>
    /\ approvalId' = NoId
    /\ waitStart' = 0
    /\ attempt' = 0
    /\ outcomes' = << >>
    /\ delays' = << >>
    /\ esResult' = NotReturned
    /\ epPc' = "in_step"
    /\ stepLog' = Append(stepLog, [ev |-> "start", step |-> steps[stepIdx].step_id])
    /\ UNCHANGED <<now, approvalVars, checkLog, max_retries, planDoc, escalations,
                   lastCall, steps, stepIdx, completed, failed, failed_steps, summary,
                   orchVars, waitVars,
                   queueVars, watcherVars, cycleVars,
                   auxVars>>

\* lines 372-396: execute_step has returned
execute_plan_step_returned ==
    /\ epPc = "in_step"
    /\ esPc = "done"
    /\ esPc' = "idle"
    /\ stepLog' = Append(stepLog, [ev |-> "return", step |-> steps[stepIdx].step_id])
    /\ stepIdx' = stepIdx + 1
    /\ IF esResult.success
       THEN /\ completed' = completed + 1
            /\ epPc' = "loop"
            /\ UNCHANGED <<failed, failed_steps>>
       ELSE /\ failed' = failed + 1
            /\ failed_steps' = Append(failed_steps,
                   [step_id |-> steps[stepIdx].step_id, error |-> esResult.error])
            /\ epPc' = IF stops_plan(steps[stepIdx]) THEN "finish" ELSE "loop"
            /\ UNCHANGED completed
    /\ UNCHANGED <<now, approvalVars, checkLog, max_retries, planDoc, esIn, esSeen,
                   approvalId, waitStart, attempt, outcomes, delays, esResult,
                   escalations, lastCall, steps, summary,
                   orchVars, waitVars,
                   queueVars, watcherVars, cycleVars,
                   auxVars>>

\* lines 398-424: the results, mark_plan_complete and the return
execute_plan_finish ==
    /\ \/ epPc = "finish"
       \/ epPc = "loop" /\ stepIdx > Len(steps)
    /\ LET all_success == (failed = 0)
           outcome == plan_outcome(completed, failed)
       IN /\ summary' = [returned |-> TRUE, all_success |-> all_success,
                         outcome |-> outcome, total_steps |-> Len(steps),
                         completed |-> completed, failed |-> failed]
          /\ planDoc' = mark_plan_complete(planDoc, outcome)
    /\ epPc' = "done"
    /\ UNCHANGED <<now, approvalVars, checkLog, max_retries, esPc, esIn, esSeen,
                   approvalId, waitStart, attempt, outcomes, delays, esResult,
                   escalations, lastCall, steps, stepIdx, completed, failed,
                   failed_steps, stepLog,
                   orchVars, waitVars,
                   queueVars, watcherVars, cycleVars,
                   auxVars>>

(***************************************************************************)
(* Task analyzer.                                                          *)
(***************************************************************************)
urgent_keywords ==
    {"urgent", "asap", "immediately", "critical", "emergency", "important",
     "priority", "deadline", "time-sensitive"}

sales_keywords ==
    {"pricing", "quote", "proposal", "interested", "purchase", "buy", "cost",
     "demo", "trial", "consultation", "meeting"}

support_keywords ==
    {"help", "issue", "problem", "error", "bug", "not working", "broken",
     "question", "how to", "support", "assistance"}

complaint_keywords ==
    {"complaint", "unhappy", "disappointed", "frustrated", "angry",
     "unacceptable", "poor", "terrible", "worst", "refund"}

routine_keywords ==
    {"weekly", "daily", "monthly", "scheduled", "regular", "recurring",
     "automated", "routine", "periodic"}

_classify_category(content) ==
    IF content \cap routine_keywords # {} THEN "routine"
    ELSE IF content \cap complaint_keywords # {} THEN "complaint"
    ELSE IF content \cap sales_keywords # {} THEN "sales"
    ELSE IF content \cap support_keywords # {} THEN "support"
    ELSE "general"

_classify_priority(content, metadata, category) ==
    IF content \cap urgent_keywords # {} THEN "urgent"
    ELSE IF category = "complaint" THEN "high"
    ELSE IF category = "sales" THEN "high"
    ELSE IF category = "support" THEN "medium"
    ELSE IF category = "routine" THEN "low"
    ELSE IF metadata.priority = "high" THEN "high"
    ELSE "medium"

\* `length` is len(content)
_classify_complexity(length, category, priority) ==
    IF priority = "urgent" THEN "critical"
    ELSE IF category = "complaint" THEN "complex"
    ELSE IF category = "sales" THEN "complex"
    ELSE IF category = "routine" THEN "routine"
    ELSE IF category = "support"
        THEN IF length > 500 THEN "complex" ELSE "simple"
    ELSE IF length > 300 THEN "complex"
    ELSE "simple"

category_actions(category) ==
    IF category = "sales"
    THEN <<"Analyze lead quality and intent",
           "Draft personalized response with value proposition",
           "Offer consultation or demo",
           "Schedule follow-up",
           "Log opportunity in CRM">>
    ELSE IF category = "complaint"
    THEN <<"Acknowledge complaint and apologize",
           "Investigate issue details",
           "Propose resolution or compensation",
           "Escalate to human if needed",
           "Follow up to ensure satisfaction">>
    ELSE IF category = "support"
    THEN <<"Understand the issue",
           "Search knowledge base for solution",
           "Provide step-by-step guidance",
           "Offer additional resources",
           "Follow up to confirm resolution">>
    ELSE IF category = "routine"
    THEN <<"Execute predefined workflow",
           "Generate required content",
           "Submit for approval if needed",
           "Publish or send",
           "Log completion">>
    ELSE <<"Analyze request intent",
           "Determine appropriate response",
           "Draft response",
           "Review and send">>

_generate_suggested_actions(source, event_type, category) ==
    IF source = "gmail" /\ event_type = "new_message"
    THEN <<"Read and parse email content">> \o category_actions(category)
    ELSE IF source = "linkedin" /\ event_type = "connection_request"
    THEN <<"Review LinkedIn profile">> \o category_actions(category)
    ELSE IF source = "linkedin" /\ event_type = "new_message"
    THEN <<"Review conversation history">> \o category_actions(category)
    ELSE category_actions(category)

\* the analysis dictionary of an event whose content is a string
analyze_event(event) ==
    LET category == _classify_category(event.content)
        priority == _classify_priority(event.content, event.metadata, category)
        complexity == _classify_complexity(event.length, category, priority)
    IN [complexity |-> complexity,
        category |-> category,
        priority |-> priority,
        requires_plan |-> complexity \in {"complex", "critical"},
        suggested_actions |->
            _generate_suggested_actions(event.source, event.type, category),
        source |-> event.source,
        event_type |-> event.type]

\* dict.get(key, default)
get(d, key, default) == IF key \in DOMAIN d THEN d[key] ELSE default

(***************************************************************************)
(* Orchestrator.                                                           *)
(***************************************************************************)
max_events_per_cycle == 10
cycle_interval == 5        \* run_continuous cycle_interval, in clock units

\* the keywords of the classifier and of _determine_action_type that occur
\* in an action description of the analyzer's templates
description_keywords(action) ==
    CASE action = "Acknowledge complaint and apologize" -> {"complaint"}
      [] action = "Publish or send" -> {"publish", "send"}
      [] action = "Review and send" -> {"send"}
      [] action = "Read and parse email content" -> {"email"}
      [] action = "Review LinkedIn profile" -> {"linkedin"}
      [] OTHER -> {}

_determine_action_type(words) ==
    IF "email" \in words \/ "send" \in words THEN "email_send"
    ELSE IF "linkedin" \in words \/ "post" \in words THEN "linkedin_post"
    ELSE IF "payment" \in words \/ "pay" \in words THEN "payment"
    ELSE IF "delete" \in words \/ "remove" \in words THEN "file_delete"
    ELSE "other"

pop_largest ==
    IF needsAction = {} THEN 0
    ELSE CHOOSE i \in needsAction : \A j \in needsAction : i >= j


\* EventQueue.pop: the first file of Needs_Action/ in name order, 0 when empty
pop ==
    IF needsAction = {} THEN 0
    ELSE CHOOSE i \in needsAction : \A j \in needsAction : i <= j

\* a move_to_done that leaves the file where it is
move_to_done_leaves_file(event_file) ==
    UNCHANGED <<needsAction, doneDir>>

\* EventQueue.move_to_done(event_file)
move_to_done(event_file) ==
    /\ needsAction' = needsAction \ {event_file}
    /\ doneDir' = doneDir \cup {event_file}

\* Path(f"AI_Employee_Vault/Needs_Action/{event_id}.json").exists(), where
\* event_id = event.get('id')
event_file_exists(id) == eventFiles[id].has_id /\ id \in needsAction

NoHandled == [event |-> 0, path |-> None, outcome |-> None, risk |-> None]

\* the steps _execute_with_plan hands to execute_plan; every lambda reads the
\* comprehension's `action` when it is called, which is then the last one
plan_steps(actions) ==
    [i \in 1..Len(actions) |->
        [step_id |-> i,
         function |-> Len(actions),
         blocking |-> TRUE,
         requires_risk_check |-> TRUE,
         action_type |-> _determine_action_type(description_keywords(actions[i])),
         content |-> description_keywords(actions[i]),
         metadata |-> NoMetadata]]

\* the risk of the direct action, from the arguments of lines 380-384
simple_risk(event, analysis) ==
    classify(_determine_action_type(description_keywords(analysis.suggested_actions[1])),
             event.content, event.metadata)

\* the loop of _process_event_queue is at `result = self.event_queue.pop()`
AtPop ==
    /\ orchPc = "pop"
    /\ processed < max_events_per_cycle
    /\ pop # 0
    /\ now <= MaxTime
    /\ Cardinality(DOMAIN pendingMeta) < MaxRequests

\* lines 218-242 for an event whose content is not a string: analyze_event
\* raises at content.lower() and the handler moves the file to Done/
process_event_analysis_error ==
    /\ AtPop
    /\ ~eventFiles[pop].content_is_text
    /\ move_to_done(pop)
    /\ lastHandled' = [event |-> pop, path |-> "error", outcome |-> "AttributeError",
                       risk |-> None]
    /\ UNCHANGED <<now, approvalVars, checkLog, stepVars, lastCall, planVars,
                   eventFiles, orchPc, processed, cur, cycle, actionRuns, waitVars,
                   queueVars, watcherVars, cycleVars,
                   auxVars>>

\* lines 218-242 with _execute_simple
_execute_simple ==
    /\ AtPop
    /\ eventFiles[pop].content_is_text
    /\ LET event == eventFiles[pop]
           analysis == analyze_event(event)
       IN /\ ~analysis.requires_plan
          /\ IF get(analysis, "requires_approval", FALSE)
             THEN \* self.risk_classifier.classify_risk does not exist
                  /\ move_to_done(pop)
                  /\ lastHandled' = [event |-> pop, path |-> "simple",
                                     outcome |-> "AttributeError",
                                     risk |-> simple_risk(event, analysis)]
                  /\ UNCHANGED <<processed, actionRuns>>
             ELSE \E o \in StepOutcomes :
                  /\ lastHandled' = [event |-> pop, path |-> "simple", outcome |-> o,
                                     risk |-> simple_risk(event, analysis)]
                  /\ IF o = "ok"
                     THEN /\ actionRuns' = [actionRuns EXCEPT ![pop] = @ + 1]
                          /\ IF event_file_exists(pop)
                             THEN \* move_to_done(event_file, status=...) raises
                                  \* TypeError, handled at line 242
                                  /\ move_to_done(pop)
                                  /\ UNCHANGED processed
                             ELSE /\ processed' = processed + 1
                                  /\ UNCHANGED <<needsAction, doneDir>>
                     ELSE /\ move_to_done(pop)
                          /\ UNCHANGED <<processed, actionRuns>>
    /\ UNCHANGED <<now, approvalVars, checkLog, stepVars, lastCall, planVars,
                   eventFiles, orchPc, cur, cycle, waitVars,
                   queueVars, watcherVars, cycleVars,
                   auxVars>>

\* lines 218-225 and _execute_with_plan up to the call of execute_plan
_execute_with_plan ==
    /\ AtPop
    /\ eventFiles[pop].content_is_text
    /\ LET analysis == analyze_event(eventFiles[pop])
       IN /\ analysis.requires_plan
          /\ planDoc' = create_plan(Len(analysis.suggested_actions))
          /\ steps' = plan_steps(analysis.suggested_actions)
    /\ cur' = pop
    /\ orchPc' = "in_plan"
    /\ epPc' = "loop"
    /\ stepIdx' = 1
    /\ completed' = 0
    /\ failed' = 0
    /\ failed_steps' = << >>
    /\ summary' = NoSummary
    /\ stepLog' = << >>
    /\ UNCHANGED <<now, approvalVars, checkLog, max_retries, esPc, esIn, esSeen,
                   approvalId, waitStart, attempt, outcomes, delays, esResult,
                   escalations, lastCall, eventFiles, needsAction, doneDir,
                   processed, cycle, lastHandled, actionRuns, waitVars,
                   queueVars, watcherVars, cycleVars,
                   auxVars>>

\* _execute_with_plan lines 306-350 and _process_event_queue lines 227-242,
\* after execute_plan returned
execute_plan_returned ==
    /\ orchPc = "in_plan"
    /\ epPc = "done"
    /\ epPc' = "idle"
    /\ orchPc' = "pop"
    /\ cur' = 0
    /\ lastHandled' = [event |-> cur, path |-> "plan", outcome |-> summary.outcome,
                       risk |-> None]
    /\ IF summary.all_success
       THEN /\ planDoc' = mark_plan_complete(planDoc, "success")
            /\ actionRuns' = [actionRuns EXCEPT ![cur] = @ + 1]
            /\ IF event_file_exists(cur)
               THEN /\ move_to_done(cur)
                    /\ UNCHANGED processed
               ELSE /\ processed' = processed + 1
                    /\ UNCHANGED <<needsAction, doneDir>>
       ELSE /\ planDoc' = mark_plan_complete(planDoc, "failed")
            /\ processed' = processed + 1
            /\ UNCHANGED <<needsAction, doneDir, actionRuns>>
    \* the locals of execute_plan and of its last execute_step call are gone
    /\ esIn' = IdleInput
    /\ esSeen' = << >>
    /\ approvalId' = NoId
    /\ waitStart' = 0
    /\ attempt' = 0
    /\ outcomes' = << >>
    /\ delays' = << >>
    /\ esResult' = NotReturned
    /\ lastCall' = NoCall
    /\ steps' = << >>
    /\ stepIdx' = 0
    /\ completed' = 0
    /\ failed' = 0
    /\ failed_steps' = << >>
    /\ summary' = NoSummary
    /\ stepLog' = << >>
    /\ UNCHANGED <<now, approvalVars, checkLog, max_retries, esPc, escalations,
                   eventFiles, cycle, waitVars,
                   queueVars, watcherVars, cycleVars,
                   auxVars>>

\* the while loop of _process_event_queue ends (empty queue or full batch);
\* run_continuous sleeps cycle_interval and calls run_cycle again
run_cycle ==
    /\ orchPc = "pop"
    /\ processed >= max_events_per_cycle \/ pop = 0
    /\ now <= MaxTime
    /\ now' = now + cycle_interval
    /\ cycle' = cycle + 1
    /\ processed' = 0
    /\ UNCHANGED <<approvalVars, checkLog, stepVars, lastCall, planVars,
                   eventFiles, needsAction, doneDir, orchPc, cur, lastHandled,
                   actionRuns, waitVars,
                   queueVars, watcherVars, cycleVars,
                   auxVars>>

(***************************************************************************)
(* Environment: the clock and the human approver.                          *)
(***************************************************************************)
Tick ==
    /\ now < MaxTime
    /\ now' = now + 1
    /\ UNCHANGED <<approvalVars, checkLog, stepVars, lastCall, planVars,
                   orchVars, waitVars,
                   queueVars, watcherVars, cycleVars,
                   auxVars>>

\* the approver moves the request file to Approved/
HumanApprove ==
    /\ \E id \in pendingDir :
        /\ pendingDir' = pendingDir \ {id}
        /\ approvedDir' = approvedDir \cup {id}
    /\ UNCHANGED <<now, rejectedDir, pendingMeta, checkLog, stepVars, lastCall, planVars,
                   orchVars, waitVars,
                   queueVars, watcherVars, cycleVars,
                   auxVars>>

\* the approver moves the request file to Rejected/
HumanReject ==
    /\ \E id \in pendingDir :
        /\ pendingDir' = pendingDir \ {id}
        /\ rejectedDir' = rejectedDir \cup {id}
    /\ UNCHANGED <<now, approvedDir, pendingMeta, checkLog, stepVars, lastCall, planVars,
                   orchVars, waitVars,
                   queueVars, watcherVars, cycleVars,
                   auxVars>>

\* the request file disappears from Pending_Approval/ (deleted or archived)
HumanRemove ==
    /\ \E id \in pendingDir : pendingDir' = pendingDir \ {id}
    /\ UNCHANGED <<now, approvedDir, rejectedDir, pendingMeta, checkLog, stepVars, lastCall, planVars,
                   orchVars, waitVars,
                   queueVars, watcherVars, cycleVars,
                   auxVars>>

\* the approver edits the pending file and breaks its embedded JSON block
HumanEdit ==
    /\ \E id \in pendingDir :
        /\ pendingMeta[id].metaOk
        /\ pendingMeta' = [pendingMeta EXCEPT ![id] =
                              [@ EXCEPT !.metaOk = FALSE, !.mtime = now]]
    /\ UNCHANGED <<now, pendingDir, approvedDir, rejectedDir, checkLog, stepVars, lastCall, planVars,
                   orchVars, waitVars,
                   queueVars, watcherVars, cycleVars,
                   auxVars>>

\* the approver edits the pending file (adds a note) and keeps its JSON block
HumanTouch ==
    /\ \E id \in pendingDir :
        /\ pendingMeta[id].metaOk
        /\ pendingMeta[id].mtime < now
        /\ pendingMeta' = [pendingMeta EXCEPT ![id] = [@ EXCEPT !.mtime = now]]
    /\ UNCHANGED <<now, pendingDir, approvedDir, rejectedDir, checkLog, stepVars,
                   lastCall, planVars, orchVars, waitVars,
                   queueVars, watcherVars, cycleVars,
                   auxVars>>

Human == HumanApprove \/ HumanReject \/ HumanRemove \/ HumanEdit

(***************************************************************************)
(* Specification of one execute_step call.                                 *)
(***************************************************************************)
StepContents == {{}, {"send"}, {"delete"}}
StepActionTypes == {None, "other", "email_send", "file_delete"}
StepMetadata == {NoMetadata, [NoMetadata EXCEPT !.contact_history = "new"]}

StepInputs ==
    [step_id : {1}, function : {1}, blocking : {TRUE}, requires_risk_check : BOOLEAN, action_type : StepActionTypes,
     content : StepContents, metadata : StepMetadata]

InitStore ==
    /\ now = 0
    /\ pendingDir = {}
    /\ approvedDir = {}
    /\ rejectedDir = {}
    /\ pendingMeta = << >>
    /\ checkLog = << >>

InitExecutor ==
    /\ esSeen = << >>
    /\ approvalId = NoId
    /\ waitStart = 0
    /\ attempt = 0
    /\ outcomes = << >>
    /\ delays = << >>
    /\ esResult = NotReturned
    /\ escalations = << >>
    /\ lastCall = NoCall

InitPlanIdle ==
    /\ epPc = "idle"
    /\ steps = << >>
    /\ stepIdx = 0
    /\ completed = 0
    /\ failed = 0
    /\ failed_steps = << >>
    /\ summary = NoSummary
    /\ stepLog = << >>

NoWaitArgs == [action_id |-> NoId, has_max |-> FALSE, max_wait_seconds |-> 0]

InitWaitIdle ==
    /\ wfaPc = "idle"
    /\ wfaArgs = NoWaitArgs
    /\ wfaStart = 0
    /\ wfaSeen = << >>
    /\ wfaResult = None

InitQueueIdle ==
    /\ qCorrupt = {}
    /\ qLocked = {}
    /\ qPendingApproval = {}
    /\ popLog = << >>

InitWatcherIdle ==
    /\ seen_hashes = {}
    /\ seenAdded = << >>
    /\ pollLog = << >>
    /\ lastMarked = [event_hash |-> 0, trimmed |-> FALSE]

\* a file: absent, or present with a content that is complete or cut short
Absent == [exists |-> FALSE, content |-> 0, complete |-> TRUE]

InitFileIdle ==
    /\ awPc = "idle"
    /\ awTarget = Absent
    /\ awTemp = Absent
    /\ awContent = 0

NoCallArgs == [op |-> None]

InitCallIdle ==
    /\ callArgs = NoCallArgs
    /\ callResult = None

LogProcesses == {"orchestrator", "watchers"}

InitLogIdle ==
    /\ logFile = << >>
    /\ lgPc = [p \in LogProcesses |-> "idle"]
    /\ lgData = [p \in LogProcesses |-> << >>]
    /\ lgCalls = [p \in LogProcesses |-> 0]

NoTally == [total |-> 0, completed |-> 0, in_progress |-> 0, pending |-> 0,
            failed |-> 0]

NoPlanContent == [exists |-> FALSE, steps |-> << >>, context |-> {}, tally |-> NoTally]

InitAuxIdle ==
    /\ InitFileIdle
    /\ InitCallIdle
    /\ InitLogIdle
    /\ planContent = NoPlanContent

InitCycleIdle ==
    /\ cyPc = "idle"
    /\ cyConfig = "ok"
    /\ cyLog = << >>

InitOrchIdle ==
    /\ eventFiles = << >>
    /\ needsAction = {}
    /\ doneDir = {}
    /\ orchPc = "idle"
    /\ processed = 0
    /\ cur = 0
    /\ cycle = 0
    /\ lastHandled = NoHandled
    /\ actionRuns = << >>

InitStep ==
    /\ InitStore
    /\ InitWaitIdle
    /\ InitAuxIdle
    /\ InitQueueIdle
    /\ InitWatcherIdle
    /\ InitCycleIdle
    /\ InitExecutor
    /\ InitPlanIdle
    /\ InitOrchIdle
    /\ max_retries \in 0..MaxRetriesCfg
    /\ planDoc \in {create_plan(1), NoPlanFile}
    /\ esIn \in StepInputs
    /\ esPc = "start"

NextStep ==
    \/ execute_step_start
    \/ _wait_for_approval
    \/ attempt_step
    \/ Tick
    \/ HumanApprove
    \/ HumanReject
    \/ HumanRemove
    \/ HumanEdit

SpecStep == InitStep /\ [][NextStep]_vars


(***************************************************************************)
(* Specification of the approval workflow alone: requests are created,     *)
(* checked, and relocated by the approver while time passes.               *)
(***************************************************************************)
RequestTypes == {"email_send"}

InitApproval ==
    /\ InitStore
    /\ InitWaitIdle
    /\ InitAuxIdle
    /\ InitQueueIdle
    /\ InitWatcherIdle
    /\ InitCycleIdle
    /\ InitExecutor
    /\ InitPlanIdle
    /\ InitOrchIdle
    /\ max_retries = DefaultMaxRetries
    /\ planDoc = NoPlanFile
    /\ esIn = IdleInput
    /\ esPc = "idle"

RequestApproval ==
    /\ Cardinality(DOMAIN pendingMeta) < MaxRequests
    /\ \E t \in RequestTypes : request_approval(<<t, now>>)
    /\ UNCHANGED <<now, checkLog, stepVars, lastCall, planVars,
                   orchVars, waitVars,
                   queueVars, watcherVars, cycleVars,
                   auxVars>>

CheckApprovalStatus ==
    /\ Len(checkLog) < MaxChecks
    /\ \E id \in DOMAIN pendingMeta :
        LET r == check_approval_status(id)
        IN /\ pendingDir' = r.pending
           /\ rejectedDir' = r.rejected
           /\ checkLog' = Append(checkLog, [id |-> id, status |-> r.status])
    /\ UNCHANGED <<now, approvedDir, pendingMeta, stepVars, lastCall, planVars,
                   orchVars, waitVars,
                   queueVars, watcherVars, cycleVars,
                   auxVars>>

NextApproval ==
    \/ RequestApproval
    \/ CheckApprovalStatus
    \/ Tick
    \/ HumanApprove
    \/ HumanReject
    \/ HumanRemove
    \/ HumanEdit

SpecApproval == InitApproval /\ [][NextApproval]_vars

(***************************************************************************)
(* Specification of the approval workflow for one action id: the caller    *)
(* may request approval for the id again, and the approver may also edit   *)
(* or delete the pending file.                                             *)
(***************************************************************************)
\* the first request_approval call
RequestOnce ==
    /\ pendingMeta = << >>
    /\ \E t \in RequestTypes : request_approval(<<t, now>>)
    /\ UNCHANGED <<now, checkLog, stepVars, lastCall, planVars, orchVars, waitVars,
                   queueVars, watcherVars, cycleVars,
                   auxVars>>

\* request_approval is called again with the id of an earlier request
RequestAgain ==
    /\ \E id \in DOMAIN pendingMeta :
        /\ id \notin pendingDir
        /\ request_approval(id)
    /\ UNCHANGED <<now, checkLog, stepVars, lastCall, planVars, orchVars, waitVars,
                   queueVars, watcherVars, cycleVars,
                   auxVars>>

NextRequests ==
    \/ RequestOnce
    \/ RequestAgain
    \/ CheckApprovalStatus
    \/ Tick
    \/ HumanApprove
    \/ HumanReject
    \/ HumanRemove
    \/ HumanEdit
    \/ HumanTouch

SpecRequests == InitApproval /\ [][NextRequests]_vars

\* the same with an approver who only relocates files
NextRelocations ==
    \/ RequestOnce
    \/ RequestAgain
    \/ CheckApprovalStatus
    \/ Tick
    \/ HumanApprove
    \/ HumanReject

SpecRelocations == InitApproval /\ [][NextRelocations]_vars

(***************************************************************************)
(* Specification of the two approval waits: one execute_step call of a     *)
(* gated step, and one wait_for_approval call for the request the step     *)
(* made, while the approver acts or stays silent.                          *)
(***************************************************************************)
GatedInput ==
    [step_id |-> 1, function |-> 1, blocking |-> TRUE,
     requires_risk_check |-> TRUE, action_type |-> "email_send",
     content |-> {"send"}, metadata |-> NoMetadata]

InitWaits ==
    /\ InitStore
    /\ InitWaitIdle
    /\ InitAuxIdle
    /\ InitQueueIdle
    /\ InitWatcherIdle
    /\ InitCycleIdle
    /\ InitExecutor
    /\ InitPlanIdle
    /\ InitOrchIdle
    /\ max_retries = DefaultMaxRetries
    /\ planDoc = NoPlanFile
    /\ esIn = GatedInput
    /\ esPc = "start"

NextWaits ==
    \/ execute_step_start
    \/ _wait_for_approval
    \/ wait_for_approval_call
    \/ wait_for_approval
    \/ Tick
    \/ HumanApprove
    \/ HumanReject
    \/ HumanRemove
    \/ HumanEdit

SpecWaits == InitWaits /\ [][NextWaits]_vars

\* each sleep of a waiting call ends and the call polls again
SpecWaitsLive ==
    /\ SpecWaits
    /\ WF_vars(wait_for_approval)
    /\ WF_vars(_wait_for_approval)

(***************************************************************************)
(* Properties of execute_step.                                             *)
(***************************************************************************)
RiskGated ==
    /\ esIn.requires_risk_check
    /\ esIn.action_type # None
    /\ classify(esIn.action_type, esIn.content, esIn.metadata) \in {"medium", "high"}

ObservedApproved == Len(esSeen) > 0 /\ esSeen[Len(esSeen)] = "approved"

StepMarked(status) == planDoc.exists => planDoc.steps[esIn.step_id] = status

\* C1: when a risk check is required and the action is rated medium or high,
\* the step function is invoked only after the step's approval request was
\* observed approved; on any other outcome of the wait the step is marked
\* failed, failure is returned, and nothing is retried or escalated.
C1_ApprovalGate ==
    (esPc \in {"wait", "attempt", "done"} /\ RiskGated) =>
        /\ approvalId # NoId
        /\ (esPc = "attempt" \/ outcomes # << >>) => ObservedApproved
        /\ (esPc = "done" /\ ~ObservedApproved) =>
              /\ esResult.success = FALSE
              /\ StepMarked("failed")
              /\ outcomes = << >>
              /\ delays = << >>
              /\ escalations = << >>

C1_Witness ==
    /\ esPc = "done"
    /\ RiskGated
    /\ planDoc.exists
    /\ Len(esSeen) > 1
    /\ esSeen[1] = "pending"
    /\ esSeen[Len(esSeen)] = "rejected"
    /\ outcomes = << >>
    /\ esResult = Returned(FALSE, "Approval rejected or timeout")

AllRaised == \A i \in 1..Len(outcomes) : outcomes[i] \in Errors

\* C6: with max_retries = N >= 1, an action that raises on every attempt is
\* invoked exactly N times, the executor sleeps base_retry_delay * 3^(k-1)
\* after failed attempt k < N (5 s, then 15 s) and not after attempt N, and
\* execute_step returns failure with the last error, the step marked failed.
C6_RetryBound ==
    (max_retries >= 1 /\ outcomes # << >> /\ AllRaised) =>
        /\ Len(outcomes) <= max_retries
        /\ esPc = "attempt" =>
              /\ Len(outcomes) < max_retries
              /\ Len(delays) = Len(outcomes)
        /\ esPc = "done" =>
              /\ Len(outcomes) = max_retries
              /\ Len(delays) = max_retries - 1
              /\ esResult = Returned(FALSE, outcomes[max_retries])
              /\ StepMarked("failed")
        /\ \A k \in 1..Len(delays) : delays[k] = base_retry_delay * 3^(k - 1)
        /\ Len(delays) >= 2 => (delays[1] = 5 /\ delays[2] = 15)

C6_Witness ==
    /\ esPc = "done"
    /\ max_retries = 3
    /\ outcomes = <<"boom", "boom", "late">>
    /\ delays = <<5, 15>>
    /\ esResult = Returned(FALSE, "late")
    /\ planDoc.exists

IsCheckOf(id) ==
    /\ Len(checkLog') = Len(checkLog) + 1
    /\ checkLog'[Len(checkLog')].id = id

CheckReported(status) == checkLog'[Len(checkLog')].status = status

\* C10: the first check of a pending request whose expires_at is in the past
\* relocates its file from Pending_Approval to Rejected and reports
\* 'timeout'; 'timeout' is reported only together with that relocation, and
\* a check that finds the file in Rejected reports 'rejected' and changes no
\* file.
C10_ExpiryOnce ==
    [][\A id \in DOMAIN pendingMeta :
        IsCheckOf(id) =>
          /\ ( /\ id \in pendingDir
               /\ id \notin approvedDir \cup rejectedDir
               /\ pendingMeta[id].metaOk
               /\ now > pendingMeta[id].expires_at )
             => ( /\ CheckReported("timeout")
                  /\ id \in rejectedDir'
                  /\ id \notin pendingDir'
                  /\ approvedDir' = approvedDir )
          /\ CheckReported("timeout")
             => (id \in pendingDir /\ id \notin pendingDir' /\ id \in rejectedDir')
          /\ (id \in rejectedDir /\ id \notin approvedDir)
             => ( /\ CheckReported("rejected")
                  /\ UNCHANGED approvalVars )
      ]_vars

C10_Witness ==
    \E i \in 1..(Len(checkLog) - 1) :
        /\ checkLog[i].status = "timeout"
        /\ checkLog[i + 1] = [id |-> checkLog[i].id, status |-> "rejected"]
        /\ checkLog[i].id \in rejectedDir
        /\ checkLog[i].id \notin pendingDir

\* the pending file of id is past its expiry, as the file itself tells
Expired(id) ==
    \/ pendingMeta[id].metaOk /\ now > pendingMeta[id].expires_at
    \/ ~pendingMeta[id].metaOk /\ now - pendingMeta[id].mtime > timeout_hours

\* C11: a check reports 'approved' when a file of the id is in Approved,
\* otherwise 'rejected' when one is in Rejected, otherwise for a file in
\* Pending_Approval 'timeout' when it is expired (and the file is then in
\* Rejected) and 'pending' when it is not, otherwise 'not_found'; expiry is
\* read from expires_at, and from the modification time only when the
\* metadata is unreadable; only the 'timeout' check changes a file.
C11_StatusTable ==
    [][\A id \in DOMAIN pendingMeta :
        IsCheckOf(id) =>
          /\ CheckReported(
                IF id \in approvedDir THEN "approved"
                ELSE IF id \in rejectedDir THEN "rejected"
                ELSE IF id \in pendingDir
                     THEN IF Expired(id) THEN "timeout" ELSE "pending"
                ELSE "not_found")
          /\ IF CheckReported("timeout")
             THEN /\ pendingDir' = pendingDir \ {id}
                  /\ rejectedDir' = rejectedDir \cup {id}
                  /\ UNCHANGED <<approvedDir, pendingMeta>>
             ELSE UNCHANGED approvalVars
      ]_vars

\* a request whose file was touched after creation is still timed out by its
\* expires_at, and every status of the table has been reported
C11_Witness ==
    /\ Len(checkLog) = 2
    /\ checkLog[1].status = "pending"
    /\ checkLog[2].status = "timeout"
    /\ LET id == checkLog[2].id
       IN /\ pendingMeta[id].metaOk
          /\ now - pendingMeta[id].mtime <= timeout_hours
          /\ id \in rejectedDir


\* the directories that hold an approval file of the action id
DirsHolding(id) ==
    {d \in {"pending", "approved", "rejected"} :
        \/ d = "pending" /\ id \in pendingDir
        \/ d = "approved" /\ id \in approvedDir
        \/ d = "rejected" /\ id \in rejectedDir}

\* C14: once request_approval has created a request, exactly one of
\* Pending_Approval, Approved and Rejected holds a file of its action id,
\* under request_approval, check_approval_status and human relocations.
C14_ExactlyOneFile ==
    \A id \in DOMAIN pendingMeta : Cardinality(DirsHolding(id)) = 1

AllPending(seq, n) == \A i \in 1..n : seq[i] = "pending"

MaxSteps == 2

\* the kinds of step a plan is made of: ungated, ungated and non-blocking,
\* and gated by a medium-risk classification
StepKinds ==
    { [function |-> 1, blocking |-> TRUE, requires_risk_check |-> FALSE,
       action_type |-> None, content |-> {}, metadata |-> NoMetadata],
      [function |-> 1, blocking |-> FALSE, requires_risk_check |-> FALSE,
       action_type |-> None, content |-> {}, metadata |-> NoMetadata],
      [function |-> 1, blocking |-> TRUE, requires_risk_check |-> TRUE,
       action_type |-> "email_send", content |-> {"send"}, metadata |-> NoMetadata] }

WithIds(kinds) ==
    [i \in 1..Len(kinds) |->
        [step_id |-> i, function |-> i, blocking |-> kinds[i].blocking,
         requires_risk_check |-> kinds[i].requires_risk_check,
         action_type |-> kinds[i].action_type, content |-> kinds[i].content,
         metadata |-> kinds[i].metadata]]

PlanInputs ==
    UNION { {WithIds(k) : k \in [1..n -> StepKinds]} : n \in 0..MaxSteps }

PlanRetryConfigs == {0, 2}

InitPlan ==
    /\ InitStore
    /\ InitWaitIdle
    /\ InitAuxIdle
    /\ InitQueueIdle
    /\ InitWatcherIdle
    /\ InitCycleIdle
    /\ InitExecutor
    /\ InitOrchIdle
    /\ max_retries \in PlanRetryConfigs
    /\ steps \in PlanInputs
    /\ planDoc = create_plan(Len(steps))
    /\ esIn = IdleInput
    /\ esPc = "idle"
    /\ epPc = "loop"
    /\ stepIdx = 1
    /\ completed = 0
    /\ failed = 0
    /\ failed_steps = << >>
    /\ summary = NoSummary
    /\ stepLog = << >>

NextPlan ==
    \/ execute_plan_call_step
    \/ execute_plan_step_returned
    \/ execute_plan_finish
    \/ execute_step_start
    \/ _wait_for_approval
    \/ attempt_step
    \/ Tick
    \/ HumanApprove
    \/ HumanReject

SpecPlan == InitPlan /\ [][NextPlan]_vars


(***************************************************************************)
(* Properties of execute_plan.                                             *)
(***************************************************************************)
Started == {stepLog[j].step : j \in {k \in 1..Len(stepLog) : stepLog[k].ev = "start"}}

BlockingFailures ==
    {failed_steps[k].step_id : k \in
        {j \in 1..Len(failed_steps) : steps[failed_steps[j].step_id].blocking}}

\* C8: the steps run in list order and one at a time (a step starts only
\* after its predecessor has returned); after a failing step whose blocking
\* flag is true no later step is started; a failing non-blocking step does not
\* keep the later steps from running.
C8_SequentialBlocking ==
    /\ \A j \in 1..Len(stepLog) :
          stepLog[j] = [ev |-> IF j % 2 = 1 THEN "start" ELSE "return",
                        step |-> (j + 1) \div 2]
    /\ esPc \in {"start", "wait", "attempt", "done"} =>
          /\ epPc = "in_step"
          /\ Len(stepLog) % 2 = 1
          /\ esIn = steps[stepLog[Len(stepLog)].step]
    /\ \A b \in BlockingFailures : \A i \in Started : i <= b
    /\ (summary.returned /\ BlockingFailures = {}) => Started = 1..Len(steps)
    /\ (summary.returned /\ BlockingFailures # {}) =>
          \E b \in BlockingFailures : Started = 1..b

C8_Witness ==
    /\ summary.returned
    /\ Len(steps) = 2
    /\ ~steps[1].blocking
    /\ Len(failed_steps) = 1
    /\ failed_steps[1].step_id = 1
    /\ Started = {1, 2}
    /\ completed = 1

TallyConsistent ==
    /\ summary.total_steps = Len(steps)
    /\ summary.completed + summary.failed <= summary.total_steps
    /\ summary.completed + summary.failed = Cardinality(Started)
    /\ summary.failed = Len(failed_steps)
    /\ summary.all_success <=> summary.outcome = "success"
    /\ summary.outcome \in {"success", "partial", "failed"}

\* C9 as stated: 'success' exactly when 0 steps failed, 'partial' exactly when
\* some completed and some failed, 'failed' exactly when none completed.
C9_AsClaimed ==
    summary.returned =>
        /\ TallyConsistent
        /\ summary.outcome = "success" <=> summary.failed = 0
        /\ summary.outcome = "partial" <=>
              (summary.completed > 0 /\ summary.failed > 0)
        /\ summary.outcome = "failed" <=> summary.completed = 0

\* C9 (amended): 'success' exactly when 0 steps failed, 'partial' exactly when
\* some completed and some failed, 'failed' exactly when some failed and none
\* completed; completed + failed never exceeds the number of steps, and the
\* success flag is true iff the outcome is 'success'.
C9_Outcome ==
    summary.returned =>
        /\ TallyConsistent
        /\ summary.outcome = "success" <=> summary.failed = 0
        /\ summary.outcome = "partial" <=>
              (summary.completed > 0 /\ summary.failed > 0)
        /\ summary.outcome = "failed" <=>
              (summary.completed = 0 /\ summary.failed > 0)

C9_Witness ==
    /\ summary.returned
    /\ summary.outcome = "failed"
    /\ summary.total_steps = 2
    /\ summary.failed = 1
    /\ summary.completed = 0
    /\ planDoc.status = "failed"

(***************************************************************************)
(* Specification of the orchestrator: the event files Needs_Action/ holds  *)
(* at the start are processed by successive run_cycle calls while the      *)
(* approver decides on the requests raised by plan steps.                  *)
(***************************************************************************)
EventMetadata ==
    [amount |-> 0, new_payee |-> FALSE, contact_history |-> "unknown",
     priority |-> None]

\* an event as WatcherBase.normalize_event builds it: 'event_id' but no 'id',
\* and a dictionary as content
SchemaEvent ==
    [has_id |-> FALSE, source |-> "gmail", type |-> "new_message",
     content_is_text |-> FALSE, content |-> {}, length |-> 0,
     metadata |-> EventMetadata]

TextEvent(has_id, source, type, content, length) ==
    [has_id |-> has_id, source |-> source, type |-> type,
     content_is_text |-> TRUE, content |-> content, length |-> length,
     metadata |-> EventMetadata]

EventKinds ==
    {SchemaEvent,
     TextEvent(TRUE, "filesystem", "new_file", {"delete"}, 40),
     TextEvent(FALSE, "gmail", "new_message", {"help", "reply"}, 400),
     TextEvent(TRUE, "gmail", "new_message", {"complaint"}, 40)}

InitOrch ==
    /\ InitStore
    /\ InitWaitIdle
    /\ InitAuxIdle
    /\ InitQueueIdle
    /\ InitWatcherIdle
    /\ InitCycleIdle
    /\ InitExecutor
    /\ InitPlanIdle
    /\ max_retries = 1    \* MAX_RETRY_ATTEMPTS=1 in the environment
    /\ planDoc = NoPlanFile
    /\ esIn = IdleInput
    /\ esPc = "idle"
    /\ eventFiles \in UNION {[1..n -> EventKinds] : n \in 1..MaxEvents}
    /\ needsAction = DOMAIN eventFiles
    /\ doneDir = {}
    /\ orchPc = "pop"
    /\ processed = 0
    /\ cur = 0
    /\ cycle = 0
    /\ lastHandled = NoHandled
    /\ actionRuns = [i \in DOMAIN eventFiles |-> 0]

NextOrch ==
    \/ process_event_analysis_error
    \/ _execute_simple
    \/ _execute_with_plan
    \/ execute_plan_call_step
    \/ execute_step_start
    \/ _wait_for_approval
    \/ attempt_step
    \/ execute_plan_step_returned
    \/ execute_plan_finish
    \/ execute_plan_returned
    \/ run_cycle
    \/ HumanApprove
    \/ HumanReject

SpecOrch == InitOrch /\ [][NextOrch]_vars

(***************************************************************************)
(* Properties of the orchestrator.                                         *)
(***************************************************************************)
\* line 388: the approval id of a direct action
simple_action_id(e) == <<eventFiles[e].source, e>>

DirectActionRan == lastHandled.path = "simple" /\ lastHandled.outcome \in StepOutcomes

\* C2: on the direct path, an action rated medium or high is invoked only
\* once its approval request has been approved.
C2_InlineGate ==
    (DirectActionRan /\ lastHandled.risk \in {"medium", "high"}) =>
        simple_action_id(lastHandled.event) \in approvedDir

\* C3: the actions of one event complete successfully at most once over all
\* pops of all cycles.
C3_NoDuplicateWork ==
    \A e \in DOMAIN actionRuns : actionRuns[e] <= 1

\* C4: when the loop is back at pop, the event the finished iteration
\* handled has left Needs_Action/, whatever the outcome was.
C4_PoppedLeaves ==
    (orchPc = "pop" /\ lastHandled.event # 0) =>
        /\ lastHandled.event \notin needsAction
        /\ lastHandled.event \in doneDir

\* C5: a direct action that failed has exactly one escalation artifact, which
\* names the event and the error.
C5_EscalationOnFailure ==
    (lastHandled.path = "simple" /\ lastHandled.outcome \in Errors) =>
        Cardinality({i \in 1..Len(escalations) :
                        /\ escalations[i].event_id = lastHandled.event
                        /\ escalations[i].error = lastHandled.outcome}) = 1

(***************************************************************************)
(* The event queue as its caller and the other processes use it: pop,      *)
(* the two relocations and push, while another process locks and unlocks   *)
(* files of Needs_Action/.                                                 *)
(***************************************************************************)
MaxQueueFiles == 2    \* file names the queue directory can hold
MaxQueueOps == 4      \* calls made on the queue in a run

\* EventQueue.move_to_pending_approval(event_file)
move_to_pending_approval(event_file) ==
    /\ needsAction' = needsAction \ {event_file}
    /\ qPendingApproval' = qPendingApproval \cup {event_file}

\* what `with FileLock(...) as f: json.load(f)` does with the head file: the
\* lock held by another process for the whole timeout raises TimeoutError,
\* a file that does not parse raises JSONDecodeError
read_head(f) ==
    IF f \in qLocked THEN "TimeoutError"
    ELSE IF f \in qCorrupt THEN "JSONDecodeError"
    ELSE "ok"

caught_decode_errors(exc) == exc = "JSONDecodeError"

\* line 89, `except Exception`
caught(exc) == exc \in {"TimeoutError", "JSONDecodeError"}

after_pop_removing(f) == needsAction \ {f}

\* pop writes nothing: the directory after the call
after_pop(f) == needsAction

\* line 76, sorted(glob('*.json'))[0]; 0 when there is no file
head_file == pop

\* the files of Needs_Action/ a reader can lock and parse
readable == needsAction \ (qLocked \cup qCorrupt)

\* a call on the queue: what it returned, the exception its read raised, and
\* the directory it found
QueueEntry(op, outcome, f) ==
    [op |-> op, outcome |-> outcome, event_file |-> f,
     event |-> IF outcome = "event" THEN {eventFiles[f]} ELSE {},
     raised |-> IF op = "pop" /\ head_file # 0 THEN read_head(head_file) ELSE "ok",
     active |-> needsAction, readable |-> readable]

\* EventQueue.pop, lines 68-91
pop_outcome ==
    IF head_file = 0 THEN "none"
    ELSE IF read_head(head_file) = "ok" THEN "event"
    ELSE IF caught(read_head(head_file)) THEN "none"
    ELSE "raise"

queue_pop ==
    /\ Len(popLog) < MaxQueueOps
    /\ popLog' = Append(popLog,
          QueueEntry("pop", pop_outcome,
                     IF pop_outcome = "event" THEN head_file ELSE 0))
    /\ needsAction' = after_pop(head_file)
    /\ UNCHANGED <<now, approvalVars, checkLog, stepVars, lastCall, planVars,
                   eventFiles, doneDir, orchPc, processed, cur, cycle,
                   lastHandled, actionRuns, waitVars, qCorrupt, qLocked,
                   qPendingApproval, watcherVars, cycleVars,
                   auxVars>>

\* the paths pop has handed to the caller
PoppedFiles ==
    {popLog[i].event_file : i \in {j \in 1..Len(popLog) :
        popLog[j].op = "pop" /\ popLog[j].outcome = "event"}}

\* the caller relocates a file pop returned
queue_move_to_done ==
    /\ Len(popLog) < MaxQueueOps
    /\ \E f \in PoppedFiles \cap needsAction :
        /\ move_to_done(f)
        /\ popLog' = Append(popLog, QueueEntry("move_to_done", "none", f))
    /\ UNCHANGED <<now, approvalVars, checkLog, stepVars, lastCall, planVars,
                   eventFiles, orchPc, processed, cur, cycle,
                   lastHandled, actionRuns, waitVars, qCorrupt, qLocked,
                   qPendingApproval, watcherVars, cycleVars,
                   auxVars>>

queue_move_to_pending_approval ==
    /\ Len(popLog) < MaxQueueOps
    /\ \E f \in PoppedFiles \cap needsAction :
        /\ move_to_pending_approval(f)
        /\ popLog' = Append(popLog,
              QueueEntry("move_to_pending_approval", "none", f))
    /\ UNCHANGED <<now, approvalVars, checkLog, stepVars, lastCall, planVars,
                   eventFiles, doneDir, orchPc, processed, cur, cycle,
                   lastHandled, actionRuns, waitVars, qCorrupt, qLocked,
                   watcherVars, cycleVars,
                   auxVars>>

\* EventQueue.push, lines 30-66, of an event whose id names no file yet
queue_push ==
    /\ Len(popLog) < MaxQueueOps
    /\ \E f \in DOMAIN eventFiles \ (needsAction \cup doneDir \cup qPendingApproval) :
        /\ needsAction' = needsAction \cup {f}
        /\ popLog' = Append(popLog, QueueEntry("push", "none", f))
    /\ UNCHANGED <<now, approvalVars, checkLog, stepVars, lastCall, planVars,
                   eventFiles, doneDir, orchPc, processed, cur, cycle,
                   lastHandled, actionRuns, waitVars, qCorrupt, qLocked,
                   qPendingApproval, watcherVars, cycleVars,
                   auxVars>>

\* another process takes the lock of a file of Needs_Action/
OtherLocks ==
    /\ qLocked = {}
    /\ \E f \in needsAction : qLocked' = {f}
    /\ UNCHANGED <<now, approvalVars, checkLog, stepVars, lastCall, planVars,
                   orchVars, waitVars, qCorrupt, qPendingApproval, popLog,
                   watcherVars, cycleVars,
                   auxVars>>

\* and releases it
OtherUnlocks ==
    /\ \E f \in qLocked : qLocked' = qLocked \ {f}
    /\ UNCHANGED <<now, approvalVars, checkLog, stepVars, lastCall, planVars,
                   orchVars, waitVars, qCorrupt, qPendingApproval, popLog,
                   watcherVars, cycleVars,
                   auxVars>>

\* the event written under file name f; the events differ from one another
QueueEvent(f) == TextEvent(TRUE, "gmail", "new_message", {"complaint"}, f)

InitQueue ==
    /\ InitStore
    /\ InitWaitIdle
    /\ InitAuxIdle
    /\ InitWatcherIdle
    /\ InitCycleIdle
    /\ InitExecutor
    /\ InitPlanIdle
    /\ max_retries = DefaultMaxRetries
    /\ planDoc = NoPlanFile
    /\ esIn = IdleInput
    /\ esPc = "idle"
    /\ eventFiles = [f \in 1..MaxQueueFiles |-> QueueEvent(f)]
    /\ needsAction \in SUBSET (1..MaxQueueFiles)
    /\ qCorrupt \in SUBSET needsAction
    /\ qLocked = {}
    /\ qPendingApproval = {}
    /\ popLog = << >>
    /\ doneDir = {}
    /\ orchPc = "idle"
    /\ processed = 0
    /\ cur = 0
    /\ cycle = 0
    /\ lastHandled = NoHandled
    /\ actionRuns = << >>

NextQueue ==
    \/ queue_pop
    \/ queue_move_to_done
    \/ queue_move_to_pending_approval
    \/ queue_push
    \/ OtherLocks
    \/ OtherUnlocks

SpecQueue == InitQueue /\ [][NextQueue]_vars


(***************************************************************************)
(* Properties of the event queue.                                          *)
(***************************************************************************)
Smallest(S) == CHOOSE i \in S : \A j \in S : i <= j

IsPop(i) == i \in 1..Len(popLog) /\ popLog[i].op = "pop"

IsRelocation(i) ==
    /\ i \in 1..Len(popLog)
    /\ popLog[i].op \in {"move_to_done", "move_to_pending_approval"}

PopReturned(i, f) ==
    /\ popLog[i].outcome = "event"
    /\ popLog[i].event_file = f
    /\ popLog[i].event = {eventFiles[f]}

\* the queue held e1 and e2 at call i, e1 before e2 and both before the rest
HeldInOrder(i, e1, e2) ==
    /\ e1 # e2
    /\ {e1, e2} \subseteq popLog[i].active
    /\ e1 = Smallest(popLog[i].active)
    /\ e2 = Smallest(popLog[i].active \ {e1})

\* C15 as stated: with e1 and e2 queued, e1 the smaller name, and both files
\* readable, two pop calls in sequence return e1 and then e2.
C15_AsClaimed ==
    \A i \in 1..Len(popLog) : \A e1, e2 \in DOMAIN eventFiles :
        (/\ IsPop(i) /\ IsPop(i + 1)
         /\ HeldInOrder(i, e1, e2)
         /\ {e1, e2} \subseteq popLog[i].readable
         /\ {e1, e2} \subseteq popLog[i + 1].readable)
        => PopReturned(i, e1) /\ PopReturned(i + 1, e2)

\* C15, amended: with e1 and e2 queued, e1 the smaller name, pop returns e1
\* while e1's file is readable, again on the next call when nothing was
\* relocated in between, and e2 on the call after the caller relocated e1.
C15_FifoAfterRelocation ==
    \A i \in 1..Len(popLog) : \A e1, e2 \in DOMAIN eventFiles :
        (IsPop(i) /\ HeldInOrder(i, e1, e2) /\ e1 \in popLog[i].readable) =>
            /\ PopReturned(i, e1)
            /\ (IsPop(i + 1) /\ e1 \in popLog[i + 1].readable)
                  => PopReturned(i + 1, e1)
            /\ (/\ IsRelocation(i + 1)
                /\ popLog[i + 1].event_file = e1
                /\ IsPop(i + 2)
                /\ e2 \in popLog[i + 2].readable)
                  => PopReturned(i + 2, e2)

C15_Witness ==
    /\ Len(popLog) >= 3
    /\ IsPop(1) /\ HeldInOrder(1, 1, 2) /\ PopReturned(1, 1)
    /\ popLog[2].op = "move_to_done" /\ popLog[2].event_file = 1
    /\ IsPop(3) /\ PopReturned(3, 2)

\* the step is a call of pop
PopStep ==
    /\ Len(popLog') = Len(popLog) + 1
    /\ popLog'[Len(popLog')].op = "pop"

\* the step is the caller's relocation of file f
RelocationStep(f) ==
    /\ Len(popLog') = Len(popLog) + 1
    /\ popLog'[Len(popLog')].op \in {"move_to_done", "move_to_pending_approval"}
    /\ popLog'[Len(popLog')].event_file = f

C17_PopReturnsNothing ==
    [][(/\ PopStep
        /\ \/ needsAction = {}
           \/ head_file \in qCorrupt
           \/ head_file \in qLocked) =>
            /\ popLog'[Len(popLog')].outcome = "none"
            /\ popLog'[Len(popLog')].event = {}
            /\ UNCHANGED <<needsAction, eventFiles, qCorrupt, qLocked, doneDir,
                           qPendingApproval>>]_vars

C17_Witness ==
    \E i, j \in 1..Len(popLog) :
        /\ IsPop(i) /\ IsPop(j)
        /\ popLog[i].raised = "TimeoutError"
        /\ popLog[i].outcome = "none"
        /\ popLog[j].raised = "JSONDecodeError"
        /\ popLog[j].outcome = "none"
        /\ popLog[j].active = needsAction


(***************************************************************************)
(* One watcher: poll_once is given raw events, identified by their hash    *)
(* (_compute_event_hash), drops those it has seen and queues the others.   *)
(***************************************************************************)
SeenCap == 2          \* stands for the cap of 1000 hashes, line 107
SeenKeep == 1         \* stands for the 900 hashes kept by a trim, line 110
MaxHashes == 3        \* distinct raw events the source can present
MaxPresented == 4     \* raw events presented to poll_once in a run

\* lines 107-110: set(list(self.seen_hashes)[-900:]). A set is listed in the
\* order of its hash table, which is unrelated to the order of insertion, so
\* the slice is some SeenKeep of the hashes
trim(hashes) ==
    {kept \in SUBSET hashes : Cardinality(kept) = SeenKeep}

\* WatcherBase._mark_as_seen, lines 97-112
_mark_as_seen(event_hash) ==
    /\ IF Cardinality(seen_hashes \cup {event_hash}) > SeenCap
       THEN seen_hashes' \in trim(seen_hashes \cup {event_hash})
       ELSE seen_hashes' = seen_hashes \cup {event_hash}
    /\ seenAdded' = Append(seenAdded, event_hash)
    /\ lastMarked' = [event_hash |-> event_hash,
                      trimmed |-> Cardinality(seen_hashes \cup {event_hash}) > SeenCap]

\* WatcherBase._is_duplicate
_is_duplicate(event_hash) == event_hash \in seen_hashes

\* one iteration of the for loop of poll_once, lines 229-246: created is
\* whether create_event_file returned an event id
poll_once ==
    /\ Len(pollLog) < MaxPresented
    /\ \E event_hash \in 1..MaxHashes : \E created \in BOOLEAN :
        IF _is_duplicate(event_hash)
        THEN /\ pollLog' = Append(pollLog,
                    [event_hash |-> event_hash, fate |-> "duplicate"])
             /\ UNCHANGED <<seen_hashes, seenAdded, lastMarked>>
        ELSE IF created
        THEN /\ pollLog' = Append(pollLog,
                    [event_hash |-> event_hash, fate |-> "queued"])
             /\ _mark_as_seen(event_hash)
        ELSE /\ pollLog' = Append(pollLog,
                    [event_hash |-> event_hash, fate |-> "not_created"])
             /\ UNCHANGED <<seen_hashes, seenAdded, lastMarked>>
    /\ UNCHANGED <<now, approvalVars, checkLog, stepVars, lastCall, planVars,
                   orchVars, waitVars, queueVars, cycleVars,
                   auxVars>>

InitWatcher ==
    /\ InitStore
    /\ InitWaitIdle
    /\ InitAuxIdle
    /\ InitQueueIdle
    /\ InitWatcherIdle
    /\ InitCycleIdle
    /\ InitExecutor
    /\ InitPlanIdle
    /\ InitOrchIdle
    /\ max_retries = DefaultMaxRetries
    /\ planDoc = NoPlanFile
    /\ esIn = IdleInput
    /\ esPc = "idle"

NextWatcher == poll_once

SpecWatcher == InitWatcher /\ [][NextWatcher]_vars

(***************************************************************************)
(* Properties of the watcher.                                              *)
(***************************************************************************)
Presented(event_hash) ==
    {i \in 1..Len(pollLog) : pollLog[i].event_hash = event_hash}

QueuedFiles(event_hash) ==
    {i \in Presented(event_hash) : pollLog[i].fate = "queued"}

\* the hashes _mark_as_seen was given between presentations i and j
MarkedBetween(i, j) ==
    {k \in 1..Len(pollLog) : i < k /\ k < j /\ pollLog[k].fate = "queued"}

\* C18: when a raw event is presented again to the watcher that queued it,
\* in the same poll or in a later one, and fewer hashes than a trim keeps
\* were added in between, the second occurrence is dropped: one event file
\* is queued for the two.
C18_DedupIdempotent ==
    \A event_hash \in 1..MaxHashes : \A i, j \in Presented(event_hash) :
        (/\ i < j
         /\ pollLog[i].fate = "queued"
         /\ Cardinality(MarkedBetween(i, j)) < SeenKeep)
        => /\ pollLog[j].fate = "duplicate"
           /\ Cardinality({k \in QueuedFiles(event_hash) : i <= k /\ k <= j}) = 1

\* the SeenKeep hashes added last
MostRecentlyAdded ==
    {seenAdded[i] : i \in {j \in 1..Len(seenAdded) : j > Len(seenAdded) - SeenKeep}}

\* C19: after every _mark_as_seen the set holds at most the cap; a trim keeps
\* the hashes added last; the hash just added is in the set.
C19_TrimKeepsRecent ==
    lastMarked.event_hash # 0 =>
        /\ Cardinality(seen_hashes) <= SeenCap
        /\ lastMarked.event_hash \in seen_hashes
        /\ lastMarked.trimmed => seen_hashes = MostRecentlyAdded


(***************************************************************************)
(* The control loop: run_continuous calls run_cycle and sleeps, while the  *)
(* watcher configuration file is present, missing or damaged and the       *)
(* watcher run and the event processing succeed or raise.                  *)
(***************************************************************************)
MaxCycles == 3        \* run_cycle calls started in a run

ConfigStates == {"ok", "missing", "invalid"}

CyclesStarted ==
    Cardinality({i \in 1..Len(cyLog) : cyLog[i] = "cycle_started"})

\* run_continuous, lines 553-556: start() and the first test of self.running
run_continuous ==
    /\ cyPc = "idle"
    /\ cyLog' = Append(cyLog, "orchestrator_started")
    /\ cyPc' = "loop"
    /\ UNCHANGED <<now, approvalVars, checkLog, stepVars, lastCall, planVars,
                   orchVars, waitVars, queueVars, watcherVars, cyConfig,
                   auxVars>>

\* run_cycle, lines 101-117
run_cycle_begin ==
    /\ cyPc = "loop"
    /\ CyclesStarted < MaxCycles
    /\ cyLog' = Append(cyLog, "cycle_started")
    /\ cyPc' = "watchers"
    /\ UNCHANGED <<now, approvalVars, checkLog, stepVars, lastCall, planVars,
                   orchVars, waitVars, queueVars, watcherVars, cyConfig,
                   auxVars>>

\* load_config, run_watchers.py 23-41: sys.exit(1) when the file is missing
\* or is not JSON
load_config == IF cyConfig = "ok" THEN "config" ELSE "SystemExit"

\* _run_watchers, lines 170-198, inside run_cycle and run_continuous: an
\* Exception of run_all_watchers is logged and the cycle goes on; SystemExit
\* is no Exception, passes the handlers of _run_watchers and run_cycle and
\* the `except KeyboardInterrupt` of run_continuous, whose finally calls
\* stop()
_run_watchers ==
    /\ cyPc = "watchers"
    /\ IF load_config = "SystemExit"
       THEN /\ cyLog' = Append(cyLog, "orchestrator_stopped")
            /\ cyPc' = "exited"
       ELSE \E raised \in BOOLEAN :
            /\ cyLog' = IF raised THEN Append(cyLog, "watchers_failed") ELSE cyLog
            /\ cyPc' = "queue"
    /\ UNCHANGED <<now, approvalVars, checkLog, stepVars, lastCall, planVars,
                   orchVars, waitVars, queueVars, watcherVars, cyConfig,
                   auxVars>>

\* lines 126-147: _process_event_queue and _execute_scheduled_tasks return,
\* or the first raises and the handler of run_cycle logs cycle_failed
process_and_schedule ==
    /\ cyPc = "queue"
    /\ \E raised \in BOOLEAN :
        cyLog' = IF raised THEN Append(cyLog, "cycle_failed") ELSE cyLog
    /\ cyPc' = "summary"
    /\ UNCHANGED <<now, approvalVars, checkLog, stepVars, lastCall, planVars,
                   orchVars, waitVars, queueVars, watcherVars, cyConfig,
                   auxVars>>

\* lines 149-166: the cycle summary, and run_cycle returns
run_cycle_end ==
    /\ cyPc = "summary"
    /\ cyLog' = Append(cyLog, "cycle_completed")
    /\ cyPc' = "sleep"
    /\ UNCHANGED <<now, approvalVars, checkLog, stepVars, lastCall, planVars,
                   orchVars, waitVars, queueVars, watcherVars, cyConfig,
                   auxVars>>

\* run_continuous, line 562: time.sleep(cycle_interval)
cycle_sleep ==
    /\ cyPc = "sleep"
    /\ now' = now + cycle_interval
    /\ cyPc' = "loop"
    /\ UNCHANGED <<approvalVars, checkLog, stepVars, lastCall, planVars,
                   orchVars, waitVars, queueVars, watcherVars, cyConfig, cyLog,
                   auxVars>>

\* somebody removes, damages or restores watcher_config.json
ConfigChanges ==
    /\ \E c \in ConfigStates \ {cyConfig} : cyConfig' = c
    /\ UNCHANGED <<now, approvalVars, checkLog, stepVars, lastCall, planVars,
                   orchVars, waitVars, queueVars, watcherVars, cyPc, cyLog,
                   auxVars>>

InitCycle ==
    /\ InitStore
    /\ InitWaitIdle
    /\ InitAuxIdle
    /\ InitQueueIdle
    /\ InitWatcherIdle
    /\ InitExecutor
    /\ InitPlanIdle
    /\ InitOrchIdle
    /\ max_retries = DefaultMaxRetries
    /\ planDoc = NoPlanFile
    /\ esIn = IdleInput
    /\ esPc = "idle"
    /\ cyPc = "idle"
    /\ cyConfig \in ConfigStates
    /\ cyLog = << >>

NextCycle ==
    \/ run_continuous
    \/ run_cycle_begin
    \/ _run_watchers
    \/ process_and_schedule
    \/ run_cycle_end
    \/ cycle_sleep
    \/ ConfigChanges

SpecCycle == InitCycle /\ [][NextCycle]_vars

\* C20: no failure inside run_cycle, a missing or invalid watcher
\* configuration included, ends the control loop: every cycle that was
\* started logs its summary, and run_continuous goes on to the sleep and to
\* the next cycle.
C20_CycleNeverThrows ==
    /\ cyPc # "exited"
    /\ cyPc \in {"sleep", "loop"} /\ CyclesStarted > 0 =>
          \E i \in 1..Len(cyLog) :
              /\ cyLog[i] = "cycle_completed"
              /\ \A j \in i + 1..Len(cyLog) : cyLog[j] # "cycle_started"


(***************************************************************************)
(* One _process_event_queue call on a queue of up to MaxBatchEvents        *)
(* events: events as the watchers write them (analysis raises) and, last,  *)
(* an event handled by the direct path.                                    *)
(***************************************************************************)
MaxBatchEvents == 11  \* event files in Needs_Action/ at the start of the call

\* n events of the watchers, the last of them followed or not by an event
\* whose content is a string
BatchQueue(n, with_text) ==
    [i \in 1..n |->
        IF with_text /\ i = n
        THEN TextEvent(FALSE, "filesystem", "new_file", {"delete"}, 40)
        ELSE SchemaEvent]

InitBatch ==
    /\ InitStore
    /\ InitWaitIdle
    /\ InitAuxIdle
    /\ InitQueueIdle
    /\ InitWatcherIdle
    /\ InitCycleIdle
    /\ InitExecutor
    /\ InitPlanIdle
    /\ max_retries = DefaultMaxRetries
    /\ planDoc = NoPlanFile
    /\ esIn = IdleInput
    /\ esPc = "idle"
    /\ eventFiles \in {BatchQueue(n, t) : n \in 1..MaxBatchEvents, t \in BOOLEAN}
    /\ needsAction = DOMAIN eventFiles
    /\ doneDir = {}
    /\ orchPc = "pop"
    /\ processed = 0
    /\ cur = 0
    /\ cycle = 0
    /\ lastHandled = NoHandled
    /\ actionRuns = [i \in DOMAIN eventFiles |-> 0]

NextBatch ==
    \/ process_event_analysis_error
    \/ _execute_simple

SpecBatch == InitBatch /\ [][NextBatch]_vars

\* the iterations the loop of the call has made: each either counts the
\* event (line 230) or moves its file to Done/ (line 242, or the TypeError
\* of the direct path), never both
HandledInCycle == processed + Cardinality(doneDir)

\* C21: one cycle pops and handles at most max_events_per_cycle events,
\* whether their processing succeeds or fails.
C21_BatchLimit == HandledInCycle <= max_events_per_cycle


(***************************************************************************)
(* atomic_write: successive calls for one target path by processes that    *)
(* can crash at any point before the rename.                               *)
(***************************************************************************)
MaxContents == 3      \* distinct `content` arguments

Complete(c) == [exists |-> TRUE, content |-> c, complete |-> TRUE]

\* the file right after open(..., 'w')
Truncated == [exists |-> TRUE, content |-> 0, complete |-> FALSE]

\* part of the content has reached the file
CutShort(c) == [exists |-> TRUE, content |-> c, complete |-> FALSE]

opened_path_target == "target"

\* line 100: the path the content is written to is path.with_suffix('.tmp')
opened_path == "temp"

\* the file at `which` becomes f
write_file(which, f) ==
    IF which = "temp"
    THEN awTemp' = f /\ UNCHANGED awTarget
    ELSE awTarget' = f /\ UNCHANGED awTemp

\* atomic_write(file_path, content) is called, lines 96-97
atomic_write_call ==
    /\ awPc \in {"idle", "crashed"}
    /\ \E c \in 1..MaxContents : awContent' = c
    /\ awPc' = "open"
    /\ UNCHANGED <<awTarget, awTemp>>
    /\ UNCHANGED <<now, approvalVars, checkLog, stepVars, lastCall, planVars,
                   orchVars, waitVars, queueVars, watcherVars, cycleVars, callVars,
                   logVars, planContent>>

\* line 101: open(temp_path, 'w')
atomic_write_open ==
    /\ awPc = "open"
    /\ write_file(opened_path, Truncated)
    /\ awPc' = "write"
    /\ UNCHANGED awContent
    /\ UNCHANGED <<now, approvalVars, checkLog, stepVars, lastCall, planVars,
                   orchVars, waitVars, queueVars, watcherVars, cycleVars, callVars,
                   logVars, planContent>>

\* line 102: f.write(content), when a part of it has been flushed
atomic_write_flush_part ==
    /\ awPc = "write"
    /\ write_file(opened_path, CutShort(awContent))
    /\ awPc' = "flushing"
    /\ UNCHANGED awContent
    /\ UNCHANGED <<now, approvalVars, checkLog, stepVars, lastCall, planVars,
                   orchVars, waitVars, queueVars, watcherVars, cycleVars, callVars,
                   logVars, planContent>>

\* lines 101-102: the with block is left, the file is closed
atomic_write_close ==
    /\ awPc \in {"write", "flushing"}
    /\ write_file(opened_path, Complete(awContent))
    /\ awPc' = "rename"
    /\ UNCHANGED awContent
    /\ UNCHANGED <<now, approvalVars, checkLog, stepVars, lastCall, planVars,
                   orchVars, waitVars, queueVars, watcherVars, cycleVars, callVars,
                   logVars, planContent>>

\* line 105: temp_path.replace(path), and the call returns
atomic_write_replace ==
    /\ awPc = "rename"
    /\ IF awTemp.exists
       THEN awTarget' = awTemp /\ awTemp' = Absent
       ELSE UNCHANGED <<awTarget, awTemp>>    \* FileNotFoundError
    /\ awPc' = "idle"
    /\ UNCHANGED awContent
    /\ UNCHANGED <<now, approvalVars, checkLog, stepVars, lastCall, planVars,
                   orchVars, waitVars, queueVars, watcherVars, cycleVars, callVars,
                   logVars, planContent>>

\* the process dies inside atomic_write, before the rename
Crash ==
    /\ awPc \in {"open", "write", "flushing", "rename"}
    /\ awPc' = "crashed"
    /\ UNCHANGED <<awTarget, awTemp, awContent>>
    /\ UNCHANGED <<now, approvalVars, checkLog, stepVars, lastCall, planVars,
                   orchVars, waitVars, queueVars, watcherVars, cycleVars, callVars,
                   logVars, planContent>>

InitAtomic ==
    /\ InitStore
    /\ InitWaitIdle
    /\ InitQueueIdle
    /\ InitWatcherIdle
    /\ InitCycleIdle
    /\ InitExecutor
    /\ InitPlanIdle
    /\ InitOrchIdle
    /\ max_retries = DefaultMaxRetries
    /\ planDoc = NoPlanFile
    /\ esIn = IdleInput
    /\ esPc = "idle"
    /\ InitCallIdle
    /\ InitLogIdle
    /\ planContent = NoPlanContent
    /\ awPc = "idle"
    /\ awTarget \in {Absent, Complete(1)}
    /\ awTemp = Absent
    /\ awContent = 0

NextAtomic ==
    \/ atomic_write_call
    \/ atomic_write_open
    \/ atomic_write_flush_part
    \/ atomic_write_close
    \/ atomic_write_replace
    \/ Crash

SpecAtomic == InitAtomic /\ [][NextAtomic]_vars

\* C22: whatever the point before the rename at which the process crashes,
\* the target is never cut short and never disappears: it changes only in
\* the rename, from its complete previous content to the complete new one.
C22_AtomicWrite ==
    [][/\ awTarget'.complete
       /\ awTarget.exists => awTarget'.exists
       /\ awPc' = "crashed" => awTarget' = awTarget
       /\ awTarget' # awTarget =>
             awPc = "rename" /\ awTarget' = Complete(awContent)]_vars

C22_Witness ==
    /\ awPc = "crashed"
    /\ awTemp = CutShort(awContent)
    /\ awTarget.exists
    /\ awTarget.complete
    /\ awTarget.content # awContent


\* ---------------------------------------------------------------------
\* Rejecting events: EventQueue.push (src/scripts/event_queue.py:30) and
\* WatcherBase.create_event_file
\* (src/AI_Employee_Vault/Watchers/watcher_base.py:150).
\*
\* An event dictionary is a record of what the two functions and the
\* schema look at: `source` ("absent" when the key is missing, "fax" a
\* value outside the schema's enum), `event_id` (0 when the key is
\* missing, 3 an id that does not match the schema's pattern),
\* `body_length` and whether `created_at` is there.  A file of the queue
\* is named after the event id it holds.
MaxPushFiles == 1

RawEvents ==
    [source : {"absent", "gmail", "fax"},
     event_id : {0, 1, 3},
     body_length : {0, 1},
     has_created_at : BOOLEAN]

\* the id push builds from the time, the source and six hex digits
GeneratedIds == {2}

\* EVENT_SCHEMA (src/scripts/event_validator.py:13): required keys, the
\* pattern of event_id, the enum of source, minLength 1 of content.body
EventSchemaHolds(event) ==
    /\ event.event_id \in {1} \cup GeneratedIds
    /\ event.source \in {"gmail", "whatsapp", "linkedin", "filesystem",
                         "calendar", "slack"}
    /\ event.body_length >= 1
    /\ event.has_created_at

validate_skipped(event) == TRUE

\* EventValidator.validate_event: jsonschema.validate against EVENT_SCHEMA,
\* ValidationError caught and turned into (False, message)
validate_event(event) == EventSchemaHolds(event)

\* push, line 44: `if 'source' not in event: raise ValueError(...)`
push_raises(event) == event.source = "absent"

\* push, lines 47-60: the defaults it fills in before writing
push_stored(event, generated) ==
    [event EXCEPT !.event_id = IF @ = 0 THEN generated ELSE @,
                  !.has_created_at = TRUE]

CallReturned(value) == [raised |-> None, value |-> value]
CallRaised(exception) == [raised |-> exception, value |-> 0]

\* atomic_write_json(queue_dir / f"{event_id}.json", event)
queue_write(stored) ==
    /\ eventFiles' = (stored.event_id :> stored) @@ eventFiles
    /\ needsAction' = needsAction \cup {stored.event_id}

push ==
    /\ Cardinality(needsAction) < MaxPushFiles
    /\ \E event \in RawEvents, generated \in GeneratedIds :
        /\ callArgs' = [op |-> "push", event |-> event]
        /\ IF push_raises(event)
           THEN /\ callResult' = CallRaised("ValueError")
                /\ UNCHANGED <<eventFiles, needsAction>>
           ELSE /\ queue_write(push_stored(event, generated))
                /\ callResult' = CallReturned(push_stored(event, generated).event_id)
    /\ UNCHANGED <<now, approvalVars, checkLog, stepVars, lastCall, planVars,
                   doneDir, orchPc, processed, cur, cycle, lastHandled,
                   actionRuns, waitVars, queueVars, watcherVars, cycleVars,
                   fileVars, logVars, planContent>>

create_event_file ==
    /\ Cardinality(needsAction) < MaxPushFiles
    /\ \E event \in RawEvents, generated \in GeneratedIds :
        /\ callArgs' = [op |-> "create_event_file", event |-> event]
        /\ IF ~validate_event(event)
           THEN \* logged, `return None` before the queue is touched
                /\ callResult' = CallReturned(0)
                /\ UNCHANGED <<eventFiles, needsAction>>
           ELSE IF push_raises(event)
           THEN \* `except Exception`: logged, `return None`
                /\ callResult' = CallReturned(0)
                /\ UNCHANGED <<eventFiles, needsAction>>
           ELSE /\ queue_write(push_stored(event, generated))
                /\ callResult' = CallReturned(push_stored(event, generated).event_id)
    /\ UNCHANGED <<now, approvalVars, checkLog, stepVars, lastCall, planVars,
                   doneDir, orchPc, processed, cur, cycle, lastHandled,
                   actionRuns, waitVars, queueVars, watcherVars, cycleVars,
                   fileVars, logVars, planContent>>

\* EventQueue.move_to_done: a queued file is taken out of Needs_Action
push_move_to_done ==
    /\ \E f \in needsAction :
        /\ needsAction' = needsAction \ {f}
        /\ doneDir' = doneDir \cup {f}
        /\ callArgs' = [op |-> "move_to_done", event_file |-> f]
        /\ callResult' = CallReturned(f)
    /\ UNCHANGED <<now, approvalVars, checkLog, stepVars, lastCall, planVars,
                   eventFiles, orchPc, processed, cur, cycle, lastHandled,
                   actionRuns, waitVars, queueVars, watcherVars, cycleVars,
                   fileVars, logVars, planContent>>

InitPush ==
    /\ InitStore
    /\ InitWaitIdle
    /\ InitAuxIdle
    /\ InitQueueIdle
    /\ InitWatcherIdle
    /\ InitCycleIdle
    /\ InitExecutor
    /\ InitPlanIdle
    /\ InitOrchIdle
    /\ max_retries = DefaultMaxRetries
    /\ planDoc = NoPlanFile
    /\ esIn = IdleInput
    /\ esPc = "idle"

NextPush ==
    \/ push
    \/ create_event_file
    \/ push_move_to_done

SpecPush == InitPush /\ [][NextPush]_vars

\* the files of Needs_Action and what they hold
ActiveQueue(dir, files) == {<<f, files[f]>> : f \in dir}

\* C23: a push of an event without `source` raises and leaves the active
\* queue as it was; a create_event_file of an event that fails the schema
\* returns None and leaves the active queue as it was; and whatever
\* create_event_file does write conforms to the schema.
C23_RejectedNeverQueued ==
    [][/\ (callArgs'.op = "push" /\ callArgs'.event.source = "absent") =>
              /\ callResult'.raised = "ValueError"
              /\ ActiveQueue(needsAction', eventFiles')
                   = ActiveQueue(needsAction, eventFiles)
       /\ (callArgs'.op = "create_event_file"
             /\ ~EventSchemaHolds(callArgs'.event)) =>
              /\ callResult' = CallReturned(0)
              /\ ActiveQueue(needsAction', eventFiles')
                   = ActiveQueue(needsAction, eventFiles)
       /\ callArgs'.op = "create_event_file" =>
              \A entry \in ActiveQueue(needsAction', eventFiles')
                             \ ActiveQueue(needsAction, eventFiles) :
                  EventSchemaHolds(entry[2])]_vars

\* the watcher path has just turned away an event that has a source, so
\* that push alone would have queued it, while a file is in the queue
C23_Witness ==
    /\ callArgs.op = "create_event_file"
    /\ callArgs.event.source = "fax"
    /\ callResult = CallReturned(0)
    /\ needsAction = {}
    /\ doneDir # {}


\* ---------------------------------------------------------------------
\* Calls of RiskClassifier.classify (src/scripts/risk_classifier.py:41).
\* The content is the set of keywords it contains, one of each list and
\* none; the amounts lie on both sides of the two payment thresholds.
ActionTypes ==
    {"payment", "file_delete", "linkedin_post", "twitter_post",
     "facebook_post", "email_send", "email_draft"}

Contents == SUBSET {"delete", "send", "complaint"}

Amounts ==
    {10, PAYMENT_THRESHOLD_MEDIUM, PAYMENT_THRESHOLD_MEDIUM + 1,
     PAYMENT_THRESHOLD_HIGH, PAYMENT_THRESHOLD_HIGH + 1, 600}

Metadatas ==
    [amount : Amounts, new_payee : BOOLEAN, contact_history : {"new", "unknown"}]

ClassifyArgs(action_type, content, metadata) ==
    [op |-> "classify", action_type |-> action_type, content |-> content,
     metadata |-> metadata]

\* `before`: the level of the call before, when this call differs from it
\* only by a larger amount
Classified(risk_level, before) == [risk_level |-> risk_level, before |-> before]

classify_call ==
    /\ \E action_type \in ActionTypes, content \in Contents,
          metadata \in Metadatas :
        /\ callArgs' = ClassifyArgs(action_type, content, metadata)
        /\ callResult' = Classified(classify(action_type, content, metadata), None)
    /\ UNCHANGED <<now, approvalVars, checkLog, stepVars, lastCall, planVars,
                   orchVars, waitVars, queueVars, watcherVars, cycleVars,
                   fileVars, logVars, planContent>>

classify_call_larger_amount ==
    /\ callArgs.op = "classify"
    /\ \E amount \in Amounts :
        /\ amount > callArgs.metadata.amount
        /\ callArgs' = [callArgs EXCEPT !.metadata.amount = amount]
        /\ callResult' =
             Classified(classify(callArgs.action_type, callArgs.content,
                                 [callArgs.metadata EXCEPT !.amount = amount]),
                        callResult.risk_level)
    /\ UNCHANGED <<now, approvalVars, checkLog, stepVars, lastCall, planVars,
                   orchVars, waitVars, queueVars, watcherVars, cycleVars,
                   fileVars, logVars, planContent>>

InitRisk ==
    /\ InitStore
    /\ InitWaitIdle
    /\ InitAuxIdle
    /\ InitQueueIdle
    /\ InitWatcherIdle
    /\ InitCycleIdle
    /\ InitExecutor
    /\ InitPlanIdle
    /\ InitOrchIdle
    /\ max_retries = DefaultMaxRetries
    /\ planDoc = NoPlanFile
    /\ esIn = IdleInput
    /\ esPc = "idle"

NextRisk ==
    \/ classify_call
    \/ classify_call_larger_amount

SpecRisk == InitRisk /\ [][NextRisk]_vars

RiskRank(risk_level) ==
    CASE risk_level = "low" -> 0
      [] risk_level = "medium" -> 1
      [] risk_level = "high" -> 2

ClassifiedPayment == callArgs.op = "classify" /\ callArgs.action_type = "payment"

HighKeywordInContent == callArgs.content \cap HIGH_RISK_KEYWORDS # {}

\* C24 as stated: for a payment, an amount above 500 or a new payee gives
\* high; otherwise an amount above 50 gives medium and an amount of at most
\* 50 gives low or medium, whatever the content; and a larger amount never
\* gives a lower level.
C24_AsClaimed ==
    ClassifiedPayment =>
        LET amount == callArgs.metadata.amount
            new_payee == callArgs.metadata.new_payee
            risk_level == callResult.risk_level
        IN  /\ (amount > 500 \/ new_payee) => risk_level = "high"
            /\ (amount > 50 /\ amount <= 500 /\ ~new_payee) =>
                  risk_level = "medium"
            /\ (amount <= 50 /\ ~new_payee) => risk_level \in {"low", "medium"}
            /\ callResult.before # None =>
                  RiskRank(risk_level) >= RiskRank(callResult.before)

\* C24: for a payment, an amount above 500 or a new payee gives high
\* whatever the content; otherwise, when the content holds no high-risk
\* keyword, an amount above 50 gives medium and an amount of at most 50
\* gives low or medium, and with such a keyword the level is high; and a
\* larger amount never gives a lower level.
C24_PaymentMonotone ==
    ClassifiedPayment =>
        LET amount == callArgs.metadata.amount
            new_payee == callArgs.metadata.new_payee
            risk_level == callResult.risk_level
        IN  /\ (amount > 500 \/ new_payee) => risk_level = "high"
            /\ HighKeywordInContent => risk_level = "high"
            /\ (amount > 50 /\ amount <= 500 /\ ~new_payee
                  /\ ~HighKeywordInContent) => risk_level = "medium"
            /\ (amount <= 50 /\ ~new_payee /\ ~HighKeywordInContent) =>
                  risk_level \in {"low", "medium"}
            /\ callResult.before # None =>
                  RiskRank(risk_level) >= RiskRank(callResult.before)

\* a payment whose amount was raised across the high threshold, the level
\* going from medium to high
C24_Witness ==
    /\ ClassifiedPayment
    /\ ~HighKeywordInContent
    /\ ~callArgs.metadata.new_payee
    /\ callArgs.metadata.amount = 600
    /\ callResult = Classified("high", "medium")

\* C25: a file_delete action is classified high for every content and
\* every metadata.
C25_DeleteAlwaysHigh ==
    (callArgs.op = "classify" /\ callArgs.action_type = "file_delete") =>
        callResult.risk_level = "high"

ClassifiedSocialPost ==
    /\ callArgs.op = "classify"
    /\ callArgs.action_type \in {"linkedin_post", "twitter_post", "facebook_post"}

\* C26 as stated: a social-media post is classified medium for every
\* content and every metadata.
C26_AsClaimed ==
    ClassifiedSocialPost => callResult.risk_level = "medium"

\* C26: a social-media post is never classified low: it is classified high
\* when its content holds a high-risk keyword and medium otherwise.
C26_SocialNeverLow ==
    ClassifiedSocialPost =>
        callResult.risk_level =
            IF HighKeywordInContent THEN "high" ELSE "medium"

\* a post without any keyword, and so without any rule but the one on
\* social media to classify it
C26_Witness ==
    /\ ClassifiedSocialPost
    /\ callArgs.content = {}
    /\ callResult.risk_level = "medium"


\* ---------------------------------------------------------------------
\* Calls of TaskAnalyzer.analyze_event (src/scripts/task_analyzer.py:54).
\* The events carry one keyword of each list or none, a content length on
\* either side of the two length tests, and a priority hint in metadata.
AnalyzedContents ==
    SUBSET {"weekly", "complaint", "pricing", "help", "urgent"}

AnalyzedLengths == {300, 301, 500, 501}

PriorityHints == {None, "low", "high", "urgent"}

AnalyzedEvents ==
    {[TextEvent(FALSE, "gmail", "new_message", content, length)
         EXCEPT !.metadata.priority = hint] :
        content \in AnalyzedContents, length \in AnalyzedLengths,
        hint \in PriorityHints}
    \cup {SchemaEvent}

\* line 71: event.get('content', '').lower() raises on a dictionary
analyze_event_result(event) ==
    IF event.content_is_text
    THEN [raised |-> None, analysis |-> analyze_event(event)]
    ELSE [raised |-> "AttributeError", analysis |-> None]

analyze_event_call ==
    /\ \E event \in AnalyzedEvents :
        /\ callArgs' = [op |-> "analyze_event", event |-> event]
        /\ callResult' = analyze_event_result(event)
    /\ UNCHANGED <<now, approvalVars, checkLog, stepVars, lastCall, planVars,
                   orchVars, waitVars, queueVars, watcherVars, cycleVars,
                   fileVars, logVars, planContent>>

InitAnalyze ==
    /\ InitStore
    /\ InitWaitIdle
    /\ InitAuxIdle
    /\ InitQueueIdle
    /\ InitWatcherIdle
    /\ InitCycleIdle
    /\ InitExecutor
    /\ InitPlanIdle
    /\ InitOrchIdle
    /\ max_retries = DefaultMaxRetries
    /\ planDoc = NoPlanFile
    /\ esIn = IdleInput
    /\ esPc = "idle"

NextAnalyze == analyze_event_call

SpecAnalyze == InitAnalyze /\ [][NextAnalyze]_vars

\* C27: every analyze_event call returns an analysis whose category,
\* priority, complexity and requires_plan are those of the decision table:
\* category by precedence routine > complaint > sales > support > general;
\* priority urgent with an urgent keyword, else by category, else the
\* priority hint of the metadata; complexity critical for urgent, complex
\* for complaint and sales, routine for routine, else complex or simple.
C27_DecisionTable ==
    callArgs.op = "analyze_event" =>
        LET content == callArgs.event.content
            hint == callArgs.event.metadata.priority
            analysis == callResult.analysis
            category ==
                IF content \cap routine_keywords # {} THEN "routine"
                ELSE IF content \cap complaint_keywords # {} THEN "complaint"
                ELSE IF content \cap sales_keywords # {} THEN "sales"
                ELSE IF content \cap support_keywords # {} THEN "support"
                ELSE "general"
            priority ==
                IF content \cap urgent_keywords # {} THEN "urgent"
                ELSE CASE category \in {"complaint", "sales"} -> "high"
                       [] category = "support" -> "medium"
                       [] category = "routine" -> "low"
                       [] OTHER -> IF hint # None THEN hint ELSE "medium"
            complexities ==
                IF priority = "urgent" THEN {"critical"}
                ELSE CASE category \in {"complaint", "sales"} -> {"complex"}
                       [] category = "routine" -> {"routine"}
                       [] OTHER -> {"complex", "simple"}
        IN  /\ callResult.raised = None
            /\ analysis.category = category
            /\ analysis.priority = priority
            /\ analysis.complexity \in complexities
            /\ analysis.requires_plan =
                  (analysis.complexity \in {"complex", "critical"})


\* ---------------------------------------------------------------------
\* The end-to-end scenario: one inbound e-mail that asks for pricing, from
\* a sender without contact history, is in Needs_Action when the
\* orchestrator's cycle starts.
NewContactMetadata == [EventMetadata EXCEPT !.contact_history = "new"]

\* GmailWatcher.poll (gmail_watcher.py:183) through normalize_event
\* (watcher_base.py:131): type 'new_email', content a dictionary
GmailPricingEvent ==
    [SchemaEvent EXCEPT !.type = "new_email", !.metadata = NewContactMetadata]

\* the same e-mail queued with its body as the content string, and the
\* same under the type the analyzer has a template for
GmailPricingText(type) ==
    [TextEvent(FALSE, "gmail", type, {"pricing"}, 40)
        EXCEPT !.metadata = NewContactMetadata]

ScenarioEvents ==
    {GmailPricingEvent, GmailPricingText("new_email"),
     GmailPricingText("new_message")}

InitScenario ==
    /\ InitStore
    /\ InitWaitIdle
    /\ InitAuxIdle
    /\ InitQueueIdle
    /\ InitWatcherIdle
    /\ InitCycleIdle
    /\ InitExecutor
    /\ InitPlanIdle
    /\ max_retries = 1
    /\ planDoc = NoPlanFile
    /\ esIn = IdleInput
    /\ esPc = "idle"
    /\ eventFiles \in {<<event>> : event \in ScenarioEvents}
    /\ needsAction = DOMAIN eventFiles
    /\ doneDir = {}
    /\ orchPc = "pop"
    /\ processed = 0
    /\ cur = 0
    /\ cycle = 0
    /\ lastHandled = NoHandled
    /\ actionRuns = [i \in DOMAIN eventFiles |-> 0]

\* the event is routed to a plan or fails in the analysis: _execute_simple
\* is not on its way
NextScenario ==
    \/ process_event_analysis_error
    \/ _execute_with_plan
    \/ execute_plan_call_step
    \/ execute_step_start
    \/ _wait_for_approval
    \/ attempt_step
    \/ execute_plan_step_returned
    \/ execute_plan_finish
    \/ execute_plan_returned
    \/ run_cycle
    \/ HumanApprove
    \/ HumanReject

SpecScenario == InitScenario /\ [][NextScenario]_vars

\* C28: a new_email event about pricing from an unknown sender is analysed
\* and routed to a plan, the first step of the plan is classified medium,
\* and no step action is invoked before an approval request exists.
C28_EndToEnd ==
    \A f \in DOMAIN eventFiles :
        eventFiles[f].type = "new_email" =>
            /\ lastHandled.event = f => lastHandled.path = "plan"
            /\ (cur = f /\ steps # << >>) =>
                  classify(steps[1].action_type, steps[1].content,
                           steps[1].metadata) = "medium"
            /\ (cur = f /\ lastCall # NoCall) => DOMAIN pendingMeta # {}


\* ---------------------------------------------------------------------
\* Logger.log (src/scripts/logger.py:53) called by the orchestrator and by
\* the watcher process on the same daily file.  A call reads the whole
\* file (_read_log_file), appends its entry to what it read and writes the
\* whole file back (_write_log_file: temp file, then replace).
MaxLogCalls == 3

\* the entry of the n-th call of a process
LogEntry(process, n) == <<process, n>>

\* lines 75-76: log_data = self._read_log_file(log_file)
log_read(process) ==
    /\ lgPc[process] = "idle"
    /\ lgCalls[process] < MaxLogCalls
    /\ lgData' = [lgData EXCEPT ![process] = logFile]
    /\ lgPc' = [lgPc EXCEPT ![process] = "read"]
    /\ UNCHANGED <<now, approvalVars, checkLog, stepVars, lastCall, planVars,
                   orchVars, waitVars, queueVars, watcherVars, cycleVars,
                   fileVars, callVars, logFile, lgCalls,
                   planContent>>

\* lines 78-94: the entry is appended to log_data and the file is replaced
log_write(process) ==
    /\ lgPc[process] = "read"
    /\ logFile' = Append(lgData[process],
                         LogEntry(process, lgCalls[process] + 1))
    /\ lgCalls' = [lgCalls EXCEPT ![process] = @ + 1]
    /\ lgData' = [lgData EXCEPT ![process] = << >>]
    /\ lgPc' = [lgPc EXCEPT ![process] = "idle"]
    /\ UNCHANGED <<now, approvalVars, checkLog, stepVars, lastCall, planVars,
                   orchVars, waitVars, queueVars, watcherVars, cycleVars,
                   fileVars, callVars, planContent>>

InitLog ==
    /\ InitStore
    /\ InitWaitIdle
    /\ InitAuxIdle
    /\ InitQueueIdle
    /\ InitWatcherIdle
    /\ InitCycleIdle
    /\ InitExecutor
    /\ InitPlanIdle
    /\ InitOrchIdle
    /\ max_retries = DefaultMaxRetries
    /\ planDoc = NoPlanFile
    /\ esIn = IdleInput
    /\ esPc = "idle"

NextLog ==
    \/ \E process \in LogProcesses : log_read(process)
    \/ \E process \in LogProcesses : log_write(process)

SpecLog == InitLog /\ [][NextLog]_vars

Occurrences(entry) ==
    Cardinality({i \in DOMAIN logFile : logFile[i] = entry})

\* C29: the daily file holds the entry of every completed Logger.log call
\* exactly once.
C29_NoEntryLost ==
    \A process \in LogProcesses :
        \A n \in 1..lgCalls[process] :
            Occurrences(LogEntry(process, n)) = 1


\* ---------------------------------------------------------------------
\* The Progress Tracking tally of Plan.md (src/scripts/plan_generator.py).
\* The text of the plan is its step lines (the status whose marker each one
\* carries), the status markers that occur in its other text (the context
\* is the event's content), and the five numbers of the tally.
Contexts == SUBSET StepStatuses

\* create_plan, lines 61-65
counted_statuses(statuses) ==
    [total |-> Len(statuses),
     completed |-> Cardinality({i \in DOMAIN statuses : statuses[i] = "completed"}),
     in_progress |-> Cardinality({i \in DOMAIN statuses : statuses[i] = "in_progress"}),
     pending |-> Cardinality({i \in DOMAIN statuses : statuses[i] = "pending"}),
     failed |-> Cardinality({i \in DOMAIN statuses : statuses[i] = "failed"})]

\* content.count(marker) over the whole text
content_count(content, status) ==
    Cardinality({i \in DOMAIN content.steps : content.steps[i] = status})
        + (IF status \in content.context THEN 1 ELSE 0)

_recalculate_progress(content) ==
    LET n_completed == content_count(content, "completed")
        n_in_progress == content_count(content, "in_progress")
        n_failed == content_count(content, "failed")
        n_pending == content_count(content, "pending")
    IN [content EXCEPT !.tally =
           [total |-> n_completed + n_in_progress + n_failed + n_pending,
            completed |-> n_completed,
            in_progress |-> n_in_progress,
            pending |-> n_pending,
            failed |-> n_failed]]

create_plan_call ==
    /\ \E n \in 1..MaxSteps, context \in Contexts :
        planContent' = [exists |-> TRUE,
                        steps |-> [i \in 1..n |-> "pending"],
                        context |-> context,
                        tally |-> counted_statuses([i \in 1..n |-> "pending"])]
    /\ UNCHANGED <<now, approvalVars, checkLog, stepVars, lastCall, planVars,
                   orchVars, waitVars, queueVars, watcherVars, cycleVars,
                   fileVars, callVars, logVars>>

\* lines 149-208; a step_id the text does not hold leaves the file alone
update_step_status_call ==
    /\ planContent.exists
    /\ \E step_id \in 1..(MaxSteps + 1), new_status \in StepStatuses :
        planContent' =
            IF step_id \in DOMAIN planContent.steps
            THEN _recalculate_progress(
                     [planContent EXCEPT !.steps[step_id] = new_status])
            ELSE planContent
    /\ UNCHANGED <<now, approvalVars, checkLog, stepVars, lastCall, planVars,
                   orchVars, waitVars, queueVars, watcherVars, cycleVars,
                   fileVars, callVars, logVars>>

InitTally ==
    /\ InitStore
    /\ InitWaitIdle
    /\ InitAuxIdle
    /\ InitQueueIdle
    /\ InitWatcherIdle
    /\ InitCycleIdle
    /\ InitExecutor
    /\ InitPlanIdle
    /\ InitOrchIdle
    /\ max_retries = DefaultMaxRetries
    /\ planDoc = NoPlanFile
    /\ esIn = IdleInput
    /\ esPc = "idle"

NextTally ==
    \/ create_plan_call
    \/ update_step_status_call

SpecTally == InitTally /\ [][NextTally]_vars

\* C30: the tally of the plan document equals the number of steps in each
\* status, and its four numbers add up to Total Steps, the number of steps.
C30_TallyConsistent ==
    planContent.exists =>
        /\ planContent.tally = counted_statuses(planContent.steps)
        /\ planContent.tally.completed + planContent.tally.in_progress
              + planContent.tally.pending + planContent.tally.failed
                 = planContent.tally.total
        /\ planContent.tally.total = Len(planContent.steps)


\* ---------------------------------------------------------------------
\* A watcher process that saves its seen hashes, dies and is started again
\* (src/AI_Employee_Vault/Watchers/watcher_base.py).  awTarget is the file
\* .{source}_seen.json, its content the set of hashes it holds; awPc is
\* where the process is.  The source presents no more than SeenCap
\* different events, so that nothing is trimmed.
NoSeenFile == [exists |-> FALSE, content |-> {}, complete |-> TRUE]

\* _load_seen_hashes, lines 51-59: json.load of a cut-short file raises,
\* and the except branch starts from the empty set
_load_seen_hashes(file) ==
    IF file.exists /\ file.complete THEN file.content ELSE {}

\* one iteration of the loop of poll_once up to the call of
\* _save_seen_hashes in _mark_as_seen (line 112)
seen_poll_event ==
    /\ awPc = "idle"
    /\ Len(pollLog) < MaxPresented
    /\ \E event_hash \in 1..SeenCap :
        IF _is_duplicate(event_hash)
        THEN /\ pollLog' = Append(pollLog,
                    [event_hash |-> event_hash, fate |-> "duplicate"])
             /\ UNCHANGED <<seen_hashes, seenAdded, lastMarked, awPc>>
        ELSE /\ pollLog' = Append(pollLog,
                    [event_hash |-> event_hash, fate |-> "queued"])
             /\ _mark_as_seen(event_hash)
             /\ awPc' = "save_open"
    /\ UNCHANGED <<awTarget, awTemp, awContent>>
    /\ UNCHANGED <<now, approvalVars, checkLog, stepVars, lastCall, planVars,
                   orchVars, waitVars, queueVars, cycleVars, callVars,
                   logVars, planContent>>

\* _save_seen_hashes, line 66: open(self.seen_hashes_file, 'w')
_save_seen_hashes_open ==
    /\ awPc = "save_open"
    /\ awTarget' = [exists |-> TRUE, content |-> {}, complete |-> FALSE]
    /\ awPc' = "save_write"
    /\ UNCHANGED <<awTemp, awContent>>
    /\ UNCHANGED <<now, approvalVars, checkLog, stepVars, lastCall, planVars,
                   orchVars, waitVars, queueVars, watcherVars, cycleVars,
                   callVars, logVars, planContent>>

\* _save_seen_hashes, line 67 and the end of the with block
_save_seen_hashes_close ==
    /\ awPc = "save_write"
    /\ awTarget' = [exists |-> TRUE, content |-> seen_hashes, complete |-> TRUE]
    /\ awPc' = "idle"
    /\ UNCHANGED <<awTemp, awContent>>
    /\ UNCHANGED <<now, approvalVars, checkLog, stepVars, lastCall, planVars,
                   orchVars, waitVars, queueVars, watcherVars, cycleVars,
                   callVars, logVars, planContent>>

\* the watcher process dies
watcher_crash ==
    /\ awPc \in {"idle", "save_open", "save_write"}
    /\ awPc' = "crashed"
    /\ UNCHANGED <<awTarget, awTemp, awContent>>
    /\ UNCHANGED <<now, approvalVars, checkLog, stepVars, lastCall, planVars,
                   orchVars, waitVars, queueVars, watcherVars, cycleVars,
                   callVars, logVars, planContent>>

\* the watcher is started again: __init__, lines 46-49
watcher_restart ==
    /\ awPc = "crashed"
    /\ seen_hashes' = _load_seen_hashes(awTarget)
    /\ awPc' = "idle"
    /\ UNCHANGED <<awTarget, awTemp, awContent, seenAdded, pollLog, lastMarked>>
    /\ UNCHANGED <<now, approvalVars, checkLog, stepVars, lastCall, planVars,
                   orchVars, waitVars, queueVars, cycleVars, callVars,
                   logVars, planContent>>

InitSeenSave ==
    /\ InitStore
    /\ InitWaitIdle
    /\ InitQueueIdle
    /\ InitWatcherIdle
    /\ InitCycleIdle
    /\ InitExecutor
    /\ InitPlanIdle
    /\ InitOrchIdle
    /\ max_retries = DefaultMaxRetries
    /\ planDoc = NoPlanFile
    /\ esIn = IdleInput
    /\ esPc = "idle"
    /\ InitCallIdle
    /\ InitLogIdle
    /\ planContent = NoPlanContent
    /\ awPc = "idle"
    /\ awTarget = NoSeenFile
    /\ awTemp = Absent
    /\ awContent = 0

NextSeenSave ==
    \/ seen_poll_event
    \/ _save_seen_hashes_open
    \/ _save_seen_hashes_close
    \/ watcher_crash
    \/ watcher_restart

SpecSeenSave == InitSeenSave /\ [][NextSeenSave]_vars

\* C31: the seen-hash file is never visible half-written at its final
\* path, and no event is queued a second time, whenever the watcher dies.
C31_NoHalfWrittenFile ==
    /\ awTarget.complete
    /\ \A i, j \in DOMAIN pollLog :
          (/\ i < j
           /\ pollLog[i].fate = "queued"
           /\ pollLog[j].fate = "queued") =>
              pollLog[i].event_hash # pollLog[j].event_hash


\* C32: when execute_step has returned, the plan document records the step
\* as completed if success was returned and as failed otherwise.
C32_StatusOnReturn ==
    (esPc = "done" /\ planDoc.exists) =>
        planDoc.steps[esIn.step_id] =
            IF esResult.success THEN "completed" ELSE "failed"


\* ---------------------------------------------------------------------
\* The orchestrator pops again and again (orchestrator.py:210-214) from a
\* Needs_Action directory in which some files are corrupt and some are
\* locked for good by another process; an event pop returns is relocated
\* by the caller.
MaxBlockedFiles == 4

\* one iteration of the loop of _process_event_queue: pop, and `break`
\* when it returned None
pop_and_relocate ==
    /\ pop_outcome = "event"
    /\ move_to_done(head_file)
    /\ UNCHANGED <<now, approvalVars, checkLog, stepVars, lastCall, planVars,
                   eventFiles, orchPc, processed, cur, cycle, lastHandled,
                   actionRuns, waitVars, queueVars, watcherVars, cycleVars,
                   auxVars>>

\* pop returned None: the loop is left and the next cycle pops again
pop_returned_none ==
    /\ pop_outcome = "none"
    /\ cycle < MaxCycles
    /\ cycle' = cycle + 1
    /\ UNCHANGED <<now, approvalVars, checkLog, stepVars, lastCall, planVars,
                   eventFiles, needsAction, doneDir, orchPc, processed, cur,
                   lastHandled, actionRuns, waitVars, queueVars, watcherVars,
                   cycleVars, auxVars>>

InitBlocked ==
    /\ InitStore
    /\ InitWaitIdle
    /\ InitAuxIdle
    /\ InitWatcherIdle
    /\ InitCycleIdle
    /\ InitExecutor
    /\ InitPlanIdle
    /\ max_retries = DefaultMaxRetries
    /\ planDoc = NoPlanFile
    /\ esIn = IdleInput
    /\ esPc = "idle"
    /\ eventFiles = [f \in 1..MaxBlockedFiles |-> QueueEvent(f)]
    /\ needsAction \in SUBSET (1..MaxBlockedFiles)
    /\ qCorrupt \in SUBSET needsAction
    /\ qLocked \in SUBSET (needsAction \ qCorrupt)
    /\ qPendingApproval = {}
    /\ popLog = << >>
    /\ doneDir = {}
    /\ orchPc = "idle"
    /\ processed = 0
    /\ cur = 0
    /\ cycle = 0
    /\ lastHandled = NoHandled
    /\ actionRuns = << >>

NextBlocked ==
    \/ pop_and_relocate
    \/ pop_returned_none

\* the orchestrator keeps calling pop
SpecBlocked ==
    InitBlocked /\ [][NextBlocked]_vars /\ WF_vars(pop_and_relocate)

\* C33: every valid event of Needs_Action is eventually returned by pop,
\* also when a corrupt or locked file is at the head of the directory.
C33_HeadDoesNotBlock ==
    \A f \in 1..MaxBlockedFiles : (f \in readable) ~> (f \in doneDir)


\* ---------------------------------------------------------------------
\* Approvals that come late: the approver moves the request file to
\* Approved/ only after the expires_at written in it has passed, and
\* before the system's next check_approval_status.
HumanApproveLate ==
    /\ \E id \in pendingDir :
        /\ pendingMeta[id].metaOk
        /\ now > pendingMeta[id].expires_at
        /\ pendingDir' = pendingDir \ {id}
        /\ approvedDir' = approvedDir \cup {id}
    /\ UNCHANGED <<now, rejectedDir, pendingMeta, checkLog, stepVars, lastCall,
                   planVars, orchVars, waitVars, queueVars, watcherVars,
                   cycleVars, auxVars>>

NextLateApproval ==
    \/ RequestApproval
    \/ CheckApprovalStatus
    \/ Tick
    \/ HumanApproveLate
    \/ HumanReject

SpecLateApproval == InitApproval /\ [][NextLateApproval]_vars

\* C34: a request whose file was moved to Approved/ after its expires_at is
\* never reported approved.
C34_ExpiredNeverApproved ==
    [][\A id \in DOMAIN pendingMeta :
          IsCheckOf(id) => ~CheckReported("approved")]_vars


\* ---------------------------------------------------------------------
\* The Gmail watcher: fetch_new_events lists the messages labelled UNREAD
\* (the watcher never removes the label, so a message is listed again by
\* the next poll) and stamps each raw event with datetime.now().
MaxMessages == 2      \* unread messages in the inbox

GmailMessages == 1..MaxMessages

\* gmail_watcher.py lines 183-202: the fields of raw_event that differ from
\* one event to another
gmail_raw_event(message_id, timestamp) ==
    [type |-> "new_email", timestamp |-> timestamp, message_id |-> message_id]

\* WatcherBase._compute_event_hash: sha256 of json.dumps(event_data,
\* sort_keys=True); two events have the same hash iff they agree on every
\* field, in the order of the sorted keys
_compute_event_hash(event_data) ==
    <<event_data.message_id, event_data.timestamp, event_data.type>>

\* one message of one poll: fetch_new_events builds its raw event at the
\* current clock reading, poll_once hashes it and queues it unless the hash
\* was seen
gmail_poll_event ==
    /\ Len(pollLog) < MaxPresented
    /\ \E message_id \in GmailMessages :
        LET raw_event == gmail_raw_event(message_id, now)
            event_hash == _compute_event_hash(raw_event)
        IN  IF _is_duplicate(event_hash)
            THEN /\ pollLog' = Append(pollLog,
                        [message_id |-> message_id, poll |-> now,
                         fate |-> "duplicate"])
                 /\ UNCHANGED <<seen_hashes, seenAdded, lastMarked>>
            ELSE /\ pollLog' = Append(pollLog,
                        [message_id |-> message_id, poll |-> now,
                         fate |-> "queued"])
                 /\ _mark_as_seen(event_hash)
    /\ UNCHANGED <<now, approvalVars, checkLog, stepVars, lastCall, planVars,
                   orchVars, waitVars, queueVars, cycleVars, fileVars,
                   callVars, logVars, planContent>>

\* Tick is the sleep between two polls
NextGmail ==
    \/ gmail_poll_event
    \/ Tick

SpecGmail == InitApproval /\ [][NextGmail]_vars

\* C37: an unread message returned by two successive polls is queued once:
\* the second poll skips it as a duplicate.
C37_SecondPollDuplicate ==
    \A i, j \in DOMAIN pollLog :
        (/\ i < j
         /\ pollLog[i].message_id = pollLog[j].message_id
         /\ pollLog[j].poll = pollLog[i].poll + 1
         /\ pollLog[i].fate = "queued")
        => pollLog[j].fate = "duplicate"


\* ---------------------------------------------------------------------
\* check_approval_status statement by statement, with the approver acting
\* between its statements. callArgs holds the call and the statement it is
\* at, callResult what it returned or raised.
ApprovalStatuses == {"approved", "rejected", "pending", "timeout", "not_found"}

check_at(pc) ==
    /\ callArgs.op = "check_approval_status"
    /\ callArgs.pc = pc

check_goto(pc) ==
    /\ callArgs' = [callArgs EXCEPT !.pc = pc]
    /\ UNCHANGED <<callResult, checkLog>>

check_return(status) ==
    /\ callArgs' = [callArgs EXCEPT !.pc = "returned"]
    /\ callResult' = CallReturned(status)
    /\ checkLog' = Append(checkLog, [id |-> callArgs.action_id, status |-> status])

check_raise(exception) ==
    /\ callArgs' = [callArgs EXCEPT !.pc = "returned"]
    /\ callResult' = CallRaised(exception)
    /\ checkLog' = Append(checkLog, [id |-> callArgs.action_id, status |-> exception])

check_call ==
    /\ IF callArgs.op = None THEN TRUE ELSE callArgs.pc = "returned"
    /\ Len(checkLog) < MaxChecks
    /\ \E action_id \in DOMAIN pendingMeta :
        callArgs' = [op |-> "check_approval_status", action_id |-> action_id,
                     pc |-> "approved_exists"]
    /\ callResult' = None
    /\ UNCHANGED <<approvalVars, checkLog>>
    /\ UNCHANGED <<now, pendingMeta, stepVars, lastCall, planVars, orchVars,
                   waitVars, queueVars, watcherVars, cycleVars, fileVars,
                   logVars, planContent>>

\* lines 171-180: if approved_file.exists()
check_approved_exists ==
    /\ check_at("approved_exists")
    /\ IF callArgs.action_id \in approvedDir
       THEN check_return("approved")
       ELSE check_goto("rejected_exists")
    /\ UNCHANGED approvalVars
    /\ UNCHANGED <<now, pendingMeta, stepVars, lastCall, planVars, orchVars,
                   waitVars, queueVars, watcherVars, cycleVars, fileVars,
                   logVars, planContent>>

\* lines 183-192: if rejected_file.exists()
check_rejected_exists ==
    /\ check_at("rejected_exists")
    /\ IF callArgs.action_id \in rejectedDir
       THEN check_return("rejected")
       ELSE check_goto("pending_exists")
    /\ UNCHANGED approvalVars
    /\ UNCHANGED <<now, pendingMeta, stepVars, lastCall, planVars, orchVars,
                   waitVars, queueVars, watcherVars, cycleVars, fileVars,
                   logVars, planContent>>

\* lines 195-196 and 212: if pending_file.exists()
check_pending_exists ==
    /\ check_at("pending_exists")
    /\ IF callArgs.action_id \in pendingDir
       THEN check_goto("is_expired")
       ELSE check_return("not_found")
    /\ UNCHANGED approvalVars
    /\ UNCHANGED <<now, pendingMeta, stepVars, lastCall, planVars, orchVars,
                   waitVars, queueVars, watcherVars, cycleVars, fileVars,
                   logVars, planContent>>

\* line 197, _is_expired(pending_file): when the file is gone, open raises
\* inside the try and is swallowed (lines 244-245), and the fallback's
\* approval_file.stat() on line 247 raises FileNotFoundError
check_is_expired ==
    /\ check_at("is_expired")
    /\ IF callArgs.action_id \in pendingDir
       THEN IF _is_expired(callArgs.action_id)
            THEN check_goto("rename")
            ELSE check_return("pending")
       ELSE check_raise("FileNotFoundError")
    /\ UNCHANGED approvalVars
    /\ UNCHANGED <<now, pendingMeta, stepVars, lastCall, planVars, orchVars,
                   waitVars, queueVars, watcherVars, cycleVars, fileVars,
                   logVars, planContent>>

\* line 199: pending_file.rename(rejected_file)
check_rename ==
    /\ check_at("rename")
    /\ IF callArgs.action_id \in pendingDir
       THEN /\ pendingDir' = pendingDir \ {callArgs.action_id}
            /\ rejectedDir' = rejectedDir \cup {callArgs.action_id}
            /\ check_return("timeout")
       ELSE /\ UNCHANGED <<pendingDir, rejectedDir>>
            /\ check_raise("FileNotFoundError")
    /\ UNCHANGED approvedDir
    /\ UNCHANGED <<now, pendingMeta, stepVars, lastCall, planVars, orchVars,
                   waitVars, queueVars, watcherVars, cycleVars, fileVars,
                   logVars, planContent>>

NextCheckRace ==
    \/ RequestApproval
    \/ Tick
    \/ HumanApprove
    \/ HumanReject
    \/ check_call
    \/ check_approved_exists
    \/ check_rejected_exists
    \/ check_pending_exists
    \/ check_is_expired
    \/ check_rename

SpecCheckRace == InitApproval /\ [][NextCheckRace]_vars

\* C35: whenever the approver moves the file while check_approval_status is
\* between its existence test, its expiry test and its rename, the call
\* returns one of the five statuses and raises nothing, and a request that
\* is in Approved/ is never moved to Rejected/.
C35_SafeAgainstRelocation ==
    [][/\ (callArgs'.op = "check_approval_status" /\ callArgs'.pc = "returned")
            => (/\ callResult'.raised = None
                /\ callResult'.value \in ApprovalStatuses)
       /\ \A id \in approvedDir : id \in approvedDir' /\ id \notin rejectedDir'
      ]_vars


\* ---------------------------------------------------------------------
\* Where action ids come from: the step executor and the post scheduler
\* both build the id from the action type and the clock, formatted with
\* strftime('%Y%m%d_%H%M%S'), that is, cut to the second. now counts seconds.
MaxIdRequests == 2    \* approval requests created in a run

GatedTypes == {"linkedin_post", "email_send"}

\* step_executor.py line 243
step_action_id(action_type, second) == <<action_type, second>>

\* post_generator.py line 385
post_action_id(second) == <<"linkedin_post", second>>

requests_made == IF callArgs.op = "request_approval" THEN callArgs.request ELSE 0

requested(requester, action_id) ==
    /\ requests_made < MaxIdRequests
    /\ request_approval(action_id)
    /\ callArgs' = [op |-> "request_approval", request |-> requests_made + 1,
                    requester |-> requester, action_id |-> action_id]

\* StepExecutor._check_risk_and_approval, lines 242-251
step_request_approval ==
    /\ \E action_type \in GatedTypes :
        requested("step_executor", step_action_id(action_type, now))
    /\ callResult' = None
    /\ UNCHANGED <<now, checkLog, stepVars, lastCall, planVars, orchVars,
                   waitVars, queueVars, watcherVars, cycleVars, fileVars,
                   logVars, planContent>>

\* PostGenerator.publish_post, lines 385-398
post_request_approval ==
    /\ requested("post_scheduler", post_action_id(now))
    /\ callResult' = None
    /\ UNCHANGED <<now, checkLog, stepVars, lastCall, planVars, orchVars,
                   waitVars, queueVars, watcherVars, cycleVars, fileVars,
                   logVars, planContent>>

NextIds ==
    \/ step_request_approval
    \/ post_request_approval
    \/ Tick
    \/ HumanApprove
    \/ HumanReject
    \/ CheckApprovalStatus

SpecIds == InitApproval /\ [][NextIds]_vars

\* C36: every new approval request gets an action id no earlier request
\* had, and no file of that id is in Approved/ or Rejected/ when the request
\* is created, so an earlier decision never answers the new request.
C36_DistinctIds ==
    [][(callArgs'.op = "request_approval" /\ callArgs' # callArgs)
          => /\ callArgs'.action_id \notin DOMAIN pendingMeta
             /\ callArgs'.action_id \notin approvedDir \cup rejectedDir]_vars


\* ---------------------------------------------------------------------
\* atomic_write called by two processes at once. Both targets have the
\* stem of the same name, so path.with_suffix('.tmp') is one temp name for
\* both. A name refers to an inode (0: the name does not exist); awContent
\* is the data of each inode, awTemp the inode of the temp name, awTarget
\* the inode of each target name; awPc is, for each process, where its call
\* is, with its arguments and the inode its open file refers to.
\* A content c stands for a text of c characters; 0 is the empty file.
Writers == LogProcesses

TargetPaths == {"state.json", "state.md"}

Mixed == 0 - 1

IdleWriter == [pc |-> "idle", path |-> "none", content |-> 0, fd |-> 0]

\* f.write(content) at offset 0 of a file that holds `old`: a shorter text
\* leaves the tail of the old one behind it
overwrite(old, content) ==
    IF old = Mixed THEN Mixed
    ELSE IF content >= old THEN content
    ELSE Mixed

\* atomic_write(path, content) is called, lines 96-97
concurrent_call(w) ==
    /\ awPc[w].pc = "idle"
    /\ \E path \in TargetPaths, content \in 1..MaxContents :
        awPc' = [awPc EXCEPT ![w] =
                    [pc |-> "open", path |-> path, content |-> content, fd |-> 0]]
    /\ UNCHANGED <<awTarget, awTemp, awContent, callResult>>
    /\ UNCHANGED <<callArgs, now, approvalVars, checkLog, stepVars, lastCall,
                   planVars, orchVars, waitVars, queueVars, watcherVars,
                   cycleVars, logVars, planContent>>

\* line 101: open(temp_path, 'w') creates the temp file, or truncates the one
\* that is there
concurrent_open(w) ==
    /\ awPc[w].pc = "open"
    /\ IF awTemp = 0
       THEN /\ awContent' = Append(awContent, 0)
            /\ awTemp' = Len(awContent) + 1
       ELSE /\ awContent' = [awContent EXCEPT ![awTemp] = 0]
            /\ UNCHANGED awTemp
    /\ awPc' = [awPc EXCEPT ![w].pc = "write", ![w].fd = awTemp']
    /\ UNCHANGED <<awTarget, callResult>>
    /\ UNCHANGED <<callArgs, now, approvalVars, checkLog, stepVars, lastCall,
                   planVars, orchVars, waitVars, queueVars, watcherVars,
                   cycleVars, logVars, planContent>>

\* lines 101-102: f.write(content) and the end of the with block; the data
\* goes to the inode the file was opened on, whatever name it has by now
concurrent_write(w) ==
    /\ awPc[w].pc = "write"
    /\ awContent' = [awContent EXCEPT ![awPc[w].fd] = overwrite(@, awPc[w].content)]
    /\ awPc' = [awPc EXCEPT ![w].pc = "replace"]
    /\ UNCHANGED <<awTarget, awTemp, callResult>>
    /\ UNCHANGED <<callArgs, now, approvalVars, checkLog, stepVars, lastCall,
                   planVars, orchVars, waitVars, queueVars, watcherVars,
                   cycleVars, logVars, planContent>>

\* line 105: temp_path.replace(path)
concurrent_replace(w) ==
    /\ awPc[w].pc = "replace"
    /\ IF awTemp = 0
       THEN /\ callResult' = [callResult EXCEPT ![w] = CallRaised("FileNotFoundError")]
            /\ UNCHANGED <<awTarget, awTemp>>
       ELSE /\ callResult' = [callResult EXCEPT ![w] = CallReturned(0)]
            /\ awTarget' = [awTarget EXCEPT ![awPc[w].path] = awTemp]
            /\ awTemp' = 0
    /\ awPc' = [awPc EXCEPT ![w].pc = "done"]
    /\ UNCHANGED awContent
    /\ UNCHANGED <<callArgs, now, approvalVars, checkLog, stepVars, lastCall,
                   planVars, orchVars, waitVars, queueVars, watcherVars,
                   cycleVars, logVars, planContent>>

InitConcurrent ==
    /\ InitStore
    /\ InitWaitIdle
    /\ InitQueueIdle
    /\ InitWatcherIdle
    /\ InitCycleIdle
    /\ InitExecutor
    /\ InitPlanIdle
    /\ InitOrchIdle
    /\ max_retries = DefaultMaxRetries
    /\ planDoc = NoPlanFile
    /\ esIn = IdleInput
    /\ esPc = "idle"
    /\ InitLogIdle
    /\ planContent = NoPlanContent
    /\ callArgs = NoCallArgs
    /\ callResult = [w \in Writers |-> None]
    /\ awPc = [w \in Writers |-> IdleWriter]
    /\ awTarget = [path \in TargetPaths |-> 0]
    /\ awTemp = 0
    /\ awContent = << >>

NextConcurrent ==
    \/ \E w \in Writers : concurrent_call(w)
    \/ \E w \in Writers : concurrent_open(w)
    \/ \E w \in Writers : concurrent_write(w)
    \/ \E w \in Writers : concurrent_replace(w)

SpecConcurrent == InitConcurrent /\ [][NextConcurrent]_vars

\* C38: when the two processes' atomic_write calls have ended, neither has
\* raised, and every target that was written holds in full the content one
\* of the writers gave for that target.
C38_NoInterference ==
    (\A w \in Writers : awPc[w].pc = "done") =>
        /\ \A w \in Writers :
              /\ callResult[w].raised = None
              /\ awTarget[awPc[w].path] # 0
        /\ \A path \in TargetPaths :
              awTarget[path] # 0 =>
                 \E w \in Writers :
                    /\ awPc[w].path = path
                    /\ awContent[awTarget[path]] = awPc[w].content


\* C39: in a plan built by _execute_with_plan, the function called for step
\* i runs the i-th suggested action.
C39_OwnAction ==
    lastCall.step # 0 => lastCall.function = lastCall.step


\* ---------------------------------------------------------------------
\* Termination of the while loop of _process_event_queue.
\* what is left for the loop to do: the iterations the counter still allows
\* and the files still in Needs_Action/
loop_variant == (max_events_per_cycle - processed) + Cardinality(needsAction)

\* a step that ends one iteration of the loop and returns to its head
LoopIteration ==
    /\ orchPc' = "pop"
    /\ cycle' = cycle
    /\ \/ orchPc = "in_plan"
       \/ orchPc = "pop" /\ UNCHANGED approvalVars

\* C40: every iteration of the loop that returns to the loop head has
\* incremented processed or removed the head file from Needs_Action/, and
\* processed never passes max_events_per_cycle, so the iterations of one
\* cycle are bounded.
C40_LoopTerminates ==
    [][LoopIteration =>
          /\ \/ processed' = processed + 1 /\ needsAction' = needsAction
             \/ processed' = processed /\ needsAction' = needsAction \ {pop}
                                       /\ pop \in needsAction
          /\ loop_variant' < loop_variant
          /\ loop_variant' >= 0
          /\ processed' <= max_events_per_cycle]_vars

C40_Witness ==
    /\ orchPc = "pop"
    /\ processed = max_events_per_cycle
    /\ needsAction # {}
    /\ lastHandled.event \in needsAction

====
